---------------------------- MODULE Spec2Model ----------------------------
(***************************************************************************)
(* A model of the layout engine of shadcn-network-graph:                   *)
(*   - runSimulation (force simulation driven by requestAnimationFrame),   *)
(*   - computeTreeLayout / computeRadialLayout / buildLayers.              *)
(*                                                                         *)
(* JavaScript numbers are modelled in fixed point: the integer v stands    *)
(* for the number v / SCALE.  Products and quotients are truncated toward  *)
(* zero.  NaN is a distinguished value that every arithmetic operation     *)
(* propagates, and `undefined' (an absent optional field) is another.      *)
(*                                                                         *)
(* The objects of the simulation's pos[] array are allocated once and      *)
(* never replaced, so an object reference is modelled by the object's      *)
(* index in pos, and an array of references by a sequence of indices.      *)
(***************************************************************************)
EXTENDS Integers, Sequences, FiniteSets, TLC

(***************************************************************************)
(* Bounds of the model.                                                    *)
(***************************************************************************)
MaxNodes == 2
MaxIter == 3
MaxCancels == 2
MaxIdle == 1
MaxWrites == 1
MaxLayoutNodes == 3

(***************************************************************************)
(* Fixed-point arithmetic with NaN.                                        *)
(***************************************************************************)
SCALE == 100

NaN == 0 - 1073741824

Undefined == 0 - 1073741825

Abs(a) == IF a < 0 THEN 0 - a ELSE a

Num(n) == n * SCALE

FAdd(a, b) == IF a = NaN \/ b = NaN THEN NaN ELSE a + b

FSub(a, b) == IF a = NaN \/ b = NaN THEN NaN ELSE a - b

Sign(a) == IF a < 0 THEN -1 ELSE 1

\* |a| * |b| \div d for d > 0, computed without forming the product |a| * |b|
MulDiv(a, b, d) ==
    (Abs(a) \div d) * Abs(b) + ((Abs(a) % d) * Abs(b)) \div d

\* a * b, truncated toward zero to a multiple of 1/SCALE
FMul(a, b) ==
    IF a = NaN \/ b = NaN THEN NaN
    ELSE Sign(a) * Sign(b) * MulDiv(a, b, SCALE)

\* a / b, truncated toward zero to a multiple of 1/SCALE; the code guards every
\* divisor with `|| 1', so b = 0 only arises as 0/0 here
FDiv(a, b) ==
    IF a = NaN \/ b = NaN \/ b = 0 THEN NaN
    ELSE Sign(a) * Sign(b) * MulDiv(a, SCALE, Abs(b))

\* JS  a || d : NaN and 0 are falsy
OrElse(a, d) == IF a = NaN \/ a = 0 THEN d ELSE a

\* JS  a ?? d : only undefined/null are nullish
Nullish(a, d) == IF a = Undefined THEN d ELSE a

RECURSIVE ISqrtBetween(_, _, _)
ISqrtBetween(v, lo, hi) ==
    IF lo >= hi THEN lo
    ELSE LET mid == (lo + hi + 1) \div 2
         IN  IF mid * mid <= v THEN ISqrtBetween(v, mid, hi)
             ELSE ISqrtBetween(v, lo, mid - 1)

\* Math.sqrt on fixed-point values: sqrt(a/SCALE) * SCALE = sqrt(a * SCALE)
FSqrt(a) ==
    IF a = NaN \/ a < 0 THEN NaN
    ELSE IF a <= 21000000 THEN ISqrtBetween(a * SCALE, 0, 46340)
    ELSE 10 * ISqrtBetween(a, 0, 46340)

\* Math.max(0, a): NaN if a is NaN
FMax0(a) == IF a = NaN THEN NaN ELSE IF a > 0 THEN a ELSE 0

\* JS  a <= 0 : false when a is NaN
LeqZero(a) == a # NaN /\ a <= 0

(***************************************************************************)
(* DEFAULT_SIMULATION_CONFIG (fixed point).                                *)
(***************************************************************************)
CfgRepulsion == 50

CfgAttraction == 8

CfgGravity == 8

CfgDamping == 70

CfgIntegration == 85

Epsilon == 1

CfgBarnesHutThreshold == 100

CfgBarnesHutTheta == 70


VARIABLES
    nodes,          \* input: sequence of [id, x, y, fixed]  (x, y may be Undefined)
    edges,          \* input: sequence of [source, target]
    cfg,            \* input: [width, height, iterations, tickInterval, barnesHutThreshold, barnesHutTheta]
    random,         \* input: the values Math.random() returns in this run
    pos,            \* runSimulation: the pos[] objects [x, y, vx, vy]
    frame,          \* runSimulation: let frame
    animId,         \* runSimulation: let animId
    rafQueue,       \* host: handles of the frame callbacks still pending
    nextRafId,      \* host: next handle requestAnimationFrame returns
    log,            \* observer: the onTick / onEnd calls made so far, in order
    framesRun,      \* observer: number of times the host has called step
    idleFrames,     \* observer: host frames that found no callback pending
    cancelCalls,    \* observer: number of cancel() calls made
    betweenCancelAt,\* observer: Len(log) at the first cancel() made between frames before onEnd, or -1
    tickCancelAt,   \* observer: Len(log) when the first cancel() made inside onTick returned, or -1
    consumerWrites, \* observer: number of writes a consumer made into a delivered snapshot
    passes,         \* observer: the repulsion pass each step entered, in order
    thrown,         \* observer: a frame callback ended with an uncaught RangeError
    peer,           \* the closure of a second runSimulation call on the same host
    treeOut,        \* <<>> or <<computeTreeLayout(nodes, edges, width, height)>>
    radialOut,      \* <<>> or <<computeRadialLayout(nodes, edges, width, height)>>
    bfsPc,          \* buildLayers: "idle", "loop" (in the BFS while loop), "done" or "returned"
    bfsQueue,       \* buildLayers: const queue
    bfsDepth,       \* buildLayers: const depth (a Map from id to number)
    bfsPushed,      \* observer: every id put into queue so far, in order
    bfsOut,         \* <<>> or <<[layers, maxDepth]>>: what buildLayers returned
    exitArgs,       \* <<>> or <<[source, target, bounds]>>: arguments of getNodeExitPoint
    exitOut,        \* <<>> or <<getNodeExitPoint(source, target, bounds)>>
    keyArgs,        \* <<>> or <<[source, target]>>: arguments of getEdgeKey
    keyOut,         \* <<>> or <<getEdgeKey(source, target)>>
    qtArgs,         \* <<>> or <<[pos, repulsion, alpha, theta]>>: arguments of a repulsion pass
    qtTree,         \* <<>> or <<root>>: the quadtree applyRepulsionBarnesHut built
    bhOut,          \* <<>> or <<pos after applyRepulsionBarnesHut>>
    bhUsed,         \* observer: per body, the cells taken as one pseudo-body for it
    bfOut           \* <<>> or <<pos after applyRepulsionBruteForce>>

simVars == <<pos, frame, animId, rafQueue, nextRafId, log, framesRun, idleFrames,
             cancelCalls, betweenCancelAt, tickCancelAt, consumerWrites, passes, thrown,
             peer>>

inputVars == <<nodes, edges, cfg, random>>

bfsVars == <<bfsPc, bfsQueue, bfsDepth, bfsPushed, bfsOut>>

layoutVars == <<treeOut, radialOut, bfsVars>>

geomVars == <<exitArgs, exitOut, keyArgs, keyOut>>

qtVars == <<qtArgs, qtTree, bhOut, bhUsed, bfOut>>

vars == <<nodes, edges, cfg, random, pos, frame, animId, rafQueue, nextRafId, log,
          framesRun, idleFrames, cancelCalls, betweenCancelAt, tickCancelAt,
          consumerWrites, passes, thrown, peer, treeOut, radialOut, bfsPc, bfsQueue, bfsDepth, bfsPushed, bfsOut,
          exitArgs, exitOut, keyArgs, keyOut, qtArgs, qtTree, bhOut, bhUsed, bfOut>>

\* no geometry utility has been called
\* no repulsion pass has been called on its own
QtIdle ==
    /\ qtArgs = << >>
    /\ qtTree = << >>
    /\ bhOut = << >>
    /\ bhUsed = << >>
    /\ bfOut = << >>

GeomIdle ==
    /\ exitArgs = << >>
    /\ exitOut = << >>
    /\ keyArgs = << >>
    /\ keyOut = << >>

\* no static layout has been asked for
LayoutIdle ==
    /\ treeOut = << >>
    /\ radialOut = << >>
    /\ bfsPc = "idle"
    /\ bfsQueue = << >>
    /\ bfsDepth = << >>
    /\ bfsPushed = << >>
    /\ bfsOut = << >>

\* no simulation has been started
\* the second runSimulation call has not been made
PeerIdle ==
    [started |-> FALSE, nodes |-> << >>, edges |-> << >>,
     cfg |-> [width |-> 0, height |-> 0, iterations |-> 0, tickInterval |-> 1,
              barnesHutThreshold |-> 0, barnesHutTheta |-> 0],
     pos |-> << >>, frame |-> 0, animId |-> 0, rafQueue |-> {}, log |-> << >>,
     framesRun |-> 0, cancelCalls |-> 0]

SimIdle ==
    /\ peer = PeerIdle
    /\ random = << >>
    /\ pos = << >>
    /\ frame = 0
    /\ animId = 0
    /\ rafQueue = {}
    /\ nextRafId = 1
    /\ log = << >>
    /\ framesRun = 0
    /\ idleFrames = 0
    /\ cancelCalls = 0
    /\ betweenCancelAt = -1
    /\ tickCancelAt = -1
    /\ consumerWrites = 0
    /\ passes = << >>
    /\ thrown = FALSE

(***************************************************************************)
(* Inputs.                                                                 *)
(***************************************************************************)
NodeIds == <<"a", "b", "c", "d">>

\* x/y hints a caller may supply, by node index (plain numbers, not scaled)
HintPoints == << <<5, 20>>, <<30, 25>>, <<20, 5>>, <<35, 10>> >>

\* values the Math.random() calls of one run may return, in [0, 1), as the pair
\* (for x, for y) drawn for the node at each index: all the same, or all different
NoRandom == << <<0, 0>>, <<0, 0>>, <<0, 0>>, <<0, 0>> >>

RandomStreams == { NoRandom, << <<75, 25>>, <<0, 0>>, <<25, 75>>, <<50, 99>> >> }

\* values a consumer may store into a field of a snapshot entry
WriteValues == { Num(1) }

Canvases == { [width |-> Num(40), height |-> Num(30)] }

TickIntervals == {1, 2}

EdgeLists ==
    { <<>>,
      << [source |-> "a", target |-> "b"] >>,
      << [source |-> "b", target |-> "a"], [source |-> "a", target |-> "b"] >>,
      << [source |-> "a", target |-> "a"] >>,
      << [source |-> "a", target |-> "z"] >>,
      << [source |-> "a", target |-> "b"], [source |-> "b", target |-> "c"] >> }

\* the shapes of SimGraphNode a caller may pass for the node at index i
NodeShapes(i) ==
    { [id |-> NodeIds[i], x |-> Undefined, y |-> Undefined, fixed |-> FALSE],
      [id |-> NodeIds[i], x |-> Undefined, y |-> Undefined, fixed |-> TRUE],
      [id |-> NodeIds[i], x |-> Num(HintPoints[i][1]), y |-> Num(HintPoints[i][2]),
       fixed |-> FALSE],
      [id |-> NodeIds[i], x |-> Num(HintPoints[i][1]), y |-> Num(HintPoints[i][2]),
       fixed |-> TRUE] }

NodeLists ==
    UNION { { ns \in [1..n -> UNION { NodeShapes(i) : i \in 1..n }] :
                \A i \in 1..n : ns[i] \in NodeShapes(i) } : n \in 0..MaxNodes }

(***************************************************************************)
(* runSimulation: set-up.                                                  *)
(***************************************************************************)
Max(a, b) == IF a >= b THEN a ELSE b

\* const k = Math.sqrt((width * height) / Math.max(nodes.length, 1))
SpringLength(c, n) == FSqrt(FDiv(FMul(c.width, c.height), Num(Max(n, 1))))

\* const repulsion = k * k * cfg.repulsion
RepulsionConstant(c, n) ==
    FMul(FMul(SpringLength(c, n), SpringLength(c, n)), CfgRepulsion)

CenterX(c) == FDiv(c.width, Num(2))

CenterY(c) == FDiv(c.height, Num(2))

\* cx + (Math.random() - 0.5) * width * 0.5
Scatter(center, r, extent) == FAdd(center, FMul(FMul(FSub(r, 50), extent), 50))

\* nodes.map((n) => ({ x: n.x ?? scatter, y: n.y ?? scatter, vx: 0, vy: 0 }))
InitialPos(ns, c, draws) ==
    [i \in 1..Len(ns) |->
        [x  |-> Nullish(ns[i].x, Scatter(CenterX(c), draws[i][1], c.width)),
         y  |-> Nullish(ns[i].y, Scatter(CenterY(c), draws[i][2], c.height)),
         vx |-> 0,
         vy |-> 0]]

\* idx[id]: nodes.forEach((n, i) => (idx[n.id] = i)); Undefined for an unknown id
IdxOf(ns, id) ==
    LET hits == { i \in 1..Len(ns) : ns[i].id = id }
    IN  IF hits = {} THEN Undefined ELSE CHOOSE i \in hits : \A j \in hits : j <= i

(***************************************************************************)
(* runSimulation.step: the forces.                                         *)
(***************************************************************************)
\* alpha computed from the step about to be made instead of the steps made
AlphaOneStepAhead(f, iterations) ==
    IF iterations = 0
    THEN 0
    ELSE FMax0(FSub(Num(1), FDiv(Num(f + 1), Num(iterations))))

\* const alpha = Math.max(0, 1 - frame / cfg.iterations)
\*   iterations = 0: 0/0 is NaN, so alpha is NaN; f/0 is Infinity for f > 0, so alpha is 0
Alpha(f, iterations) ==
    IF iterations = 0
    THEN (IF f = 0 THEN NaN ELSE 0)
    ELSE FMax0(FSub(Num(1), FDiv(Num(f), Num(iterations))))

\* one (i, j) round of the inner loop of applyRepulsionBruteForce
RepelPair(p, i, j, repulsion, alpha) ==
    LET dx    == OrElse(FSub(p[j].x, p[i].x), Epsilon)
        dy    == OrElse(FSub(p[j].y, p[i].y), Epsilon)
        dist2 == OrElse(FAdd(FMul(dx, dx), FMul(dy, dy)), Num(1))
        force == FMul(FDiv(repulsion, dist2), alpha)
    IN  [p EXCEPT ![i].vx = FSub(@, FMul(dx, force)),
                  ![i].vy = FSub(@, FMul(dy, force)),
                  ![j].vx = FAdd(@, FMul(dx, force)),
                  ![j].vy = FAdd(@, FMul(dy, force))]

RECURSIVE RepelFrom(_, _, _, _, _)
RepelFrom(p, i, j, repulsion, alpha) ==
    IF i > Len(p) THEN p
    ELSE IF j > Len(p) THEN RepelFrom(p, i + 1, i + 2, repulsion, alpha)
    ELSE RepelFrom(RepelPair(p, i, j, repulsion, alpha), i, j + 1, repulsion, alpha)

applyRepulsionBruteForce(p, repulsion, alpha) == RepelFrom(p, 1, 2, repulsion, alpha)

(***************************************************************************)
(* Barnes-Hut quadtree.  A QTNode is a record; children is << >> for null  *)
(* or four entries, each Null or a QTNode; body is -1 or a pos index.      *)
(* Box sides are kept to 1/SCALE: the midpoint is rounded down, which      *)
(* leaves x > midX exact for coordinates that are multiples of 1/SCALE.    *)
(***************************************************************************)
Null == [isNull |-> TRUE, overflow |-> FALSE]

\* RangeError: Maximum call stack size exceeded
StackOverflow == [isNull |-> TRUE, overflow |-> TRUE]

\* number of nested qtInsert calls the call stack holds
QtStackLimit == 40

createQTNode(x0, y0, x1, y1) ==
    [isNull |-> FALSE, overflow |-> FALSE, x0 |-> x0, y0 |-> y0, x1 |-> x1, y1 |-> y1,
     cx |-> 0, cy |-> 0, mass |-> 0, body |-> -1, children |-> << >>]

\* (node.c * node.mass + v) / totalMass
MassCentre(c, mass, v) ==
    IF c = NaN \/ v = NaN THEN NaN
    ELSE Sign(c * mass + v) * (Abs(c * mass + v) \div (mass + 1))

\* a quadrant index with the two bits exchanged
QuadrantBitsSwapped(node, x, y) ==
    (IF x # NaN /\ x > (node.x0 + node.x1) \div 2 THEN 2 ELSE 0)
        + (IF y # NaN /\ y > (node.y0 + node.y1) \div 2 THEN 1 ELSE 0)

\* (x > midX ? 1 : 0) + (y > midY ? 2 : 0)
Quadrant(node, x, y) ==
    (IF x # NaN /\ x > (node.x0 + node.x1) \div 2 THEN 1 ELSE 0)
        + (IF y # NaN /\ y > (node.y0 + node.y1) \div 2 THEN 2 ELSE 0)

\* createQTNode(qx0, qy0, qx1, qy1) for quadrant q of node
ChildBox(node, q) ==
    LET midX == (node.x0 + node.x1) \div 2
        midY == (node.y0 + node.y1) \div 2
    IN  createQTNode(IF q % 2 = 1 THEN midX ELSE node.x0,
                     IF q >= 2 THEN midY ELSE node.y0,
                     IF q % 2 = 1 THEN node.x1 ELSE midX,
                     IF q >= 2 THEN node.y1 ELSE midY)

\* qtInsert(node, idx, x, y) with room for depth more nested calls; the
\* result is the node after the call, or StackOverflow
RECURSIVE qtInsert(_, _, _, _, _)
qtInsert(node, idx, x, y, depth) ==
    IF depth = 0 THEN StackOverflow
    ELSE IF node.mass = 0
    THEN [node EXCEPT !.body = idx, !.cx = x, !.cy = y, !.mass = 1]
    ELSE LET \* if (node.children === null) { ... qtInsert(node, oldIdx, oldX, oldY) }
             split == IF node.children = << >>
                      THEN qtInsert([node EXCEPT !.children = <<Null, Null, Null, Null>>,
                                                 !.body = -1],
                                    node.body, node.cx, node.cy, depth - 1)
                      ELSE node
         IN  IF split.overflow THEN StackOverflow
             ELSE LET q     == Quadrant(split, x, y)
                      child == IF split.children[q + 1].isNull
                               THEN ChildBox(split, q)
                               ELSE split.children[q + 1]
                      grown == qtInsert(child, idx, x, y, depth - 1)
                  IN  IF grown.overflow THEN StackOverflow
                      ELSE [split EXCEPT !.children[q + 1] = grown,
                                         !.cx = MassCentre(split.cx, split.mass, x),
                                         !.cy = MassCentre(split.cy, split.mass, y),
                                         !.mass = split.mass + 1]

\* for (let i = 0; i < pos.length; i++) qtInsert(root, i, pos[i].x, pos[i].y)
RECURSIVE BuildFrom(_, _, _)
BuildFrom(root, p, i) ==
    IF i > Len(p) \/ root.overflow THEN root
    ELSE BuildFrom(qtInsert(root, i, p[i].x, p[i].y, QtStackLimit), p, i + 1)

\* the smallest and the largest of the values v[1..n]
RECURSIVE Least(_, _)
Least(v, n) == IF n = 1 THEN v[1] ELSE IF v[n] < Least(v, n - 1) THEN v[n] ELSE Least(v, n - 1)

RECURSIVE Greatest(_, _)
Greatest(v, n) ==
    IF n = 1 THEN v[1] ELSE IF v[n] > Greatest(v, n - 1) THEN v[n] ELSE Greatest(v, n - 1)

\* the root over the bounds of pos padded by 1, with every body inserted
BuildTree(p) ==
    LET xs == [i \in 1..Len(p) |-> p[i].x]
        ys == [i \in 1..Len(p) |-> p[i].y]
    IN  BuildFrom(createQTNode(Least(xs, Len(p)) - Num(1), Least(ys, Len(p)) - Num(1),
                               Greatest(xs, Len(p)) + Num(1), Greatest(ys, Len(p)) + Num(1)),
                  p, 1)

\* JS  a < b : false when either is NaN
Less(a, b) == a # NaN /\ b # NaN /\ a < b

\* v.vx -= dx * force; v.vy -= dy * force
PushAway(v, dx, dy, force) ==
    [v EXCEPT !.vx = FSub(@, FMul(dx, force)), !.vy = FSub(@, FMul(dy, force))]

\* the body indices held by the leaves of the subtree of node
RECURSIVE BodiesIn(_)
BodiesIn(node) ==
    IF node.isNull THEN {}
    ELSE IF node.body >= 1 THEN {node.body}
    ELSE IF node.children = << >> THEN {}
    ELSE UNION { BodiesIn(node.children[q]) : q \in 1..4 }

\* node as it is told apart from the other cells: its box and what it holds
Cell(node) ==
    [x0 |-> node.x0, y0 |-> node.y0, x1 |-> node.x1, y1 |-> node.y1,
     mass |-> node.mass, bodies |-> BodiesIn(node)]

\* applyForceFromNode(pos, i, node, ...): the velocity of body i, from v;
\* v.used collects the cells taken as one pseudo-body on the way
RECURSIVE applyForceFromNode(_, _, _, _, _, _, _)
applyForceFromNode(p, i, node, repulsion, alpha, theta, v) ==
    IF node.mass = 0 THEN v
    ELSE LET dx    == OrElse(FSub(node.cx, p[i].x), Epsilon)
             dy    == OrElse(FSub(node.cy, p[i].y), Epsilon)
             dist2 == OrElse(FAdd(FMul(dx, dx), FMul(dy, dy)), Num(1))
             size  == node.x1 - node.x0
         IN  IF node.body >= 1
             THEN IF node.body # i
                  THEN PushAway(v, dx, dy, FMul(FDiv(repulsion, dist2), alpha))
                  ELSE v
             ELSE IF Less(FDiv(FMul(size, size), dist2), FMul(theta, theta))
             THEN PushAway([v EXCEPT !.used = @ \cup {Cell(node)}], dx, dy,
                           FMul(FDiv(FMul(repulsion, Num(node.mass)), dist2), alpha))
             ELSE IF node.children = << >> THEN v
             ELSE LET kid(n, w) == IF node.children[n].isNull THEN w
                                   ELSE applyForceFromNode(p, i, node.children[n],
                                                           repulsion, alpha, theta, w)
                  IN  kid(4, kid(3, kid(2, kid(1, v))))

\* applyRepulsionBarnesHut for a tree that could be built
applyRepulsionBarnesHut(p, repulsion, alpha, theta) ==
    LET root == BuildTree(p)
    IN  [i \in 1..Len(p) |->
            LET v == applyForceFromNode(p, i, root, repulsion, alpha, theta,
                                        [vx |-> p[i].vx, vy |-> p[i].vy, used |-> {}])
            IN  [x |-> p[i].x, y |-> p[i].y, vx |-> v.vx, vy |-> v.vy]]

\* an attraction loop that takes pos[0] for an id that idx does not know
AttractEdgeUnknownAsFirst(p, ns, e, k, alpha) ==
    LET si == IF IdxOf(ns, e.source) = Undefined THEN 1 ELSE IdxOf(ns, e.source)
        ti == IF IdxOf(ns, e.target) = Undefined THEN 1 ELSE IdxOf(ns, e.target)
        dx    == FSub(p[ti].x, p[si].x)
        dy    == FSub(p[ti].y, p[si].y)
        dist  == OrElse(FSqrt(FAdd(FMul(dx, dx), FMul(dy, dy))), Num(1))
        force == FMul(FMul(FSub(dist, k), CfgAttraction), alpha)
        fx    == FMul(FDiv(dx, dist), force)
        fy    == FMul(FDiv(dy, dist), force)
        p1    == [p EXCEPT ![si].vx = FAdd(@, fx), ![si].vy = FAdd(@, fy)]
    IN  IF Len(p) = 0 THEN p
        ELSE [p1 EXCEPT ![ti].vx = FSub(@, fx), ![ti].vy = FSub(@, fy)]

\* one edge of the attraction loop; s and t may be the same object
AttractEdge(p, ns, e, k, alpha) ==
    LET si == IdxOf(ns, e.source)
        ti == IdxOf(ns, e.target)
    IN  IF si = Undefined \/ ti = Undefined THEN p
        ELSE LET dx    == FSub(p[ti].x, p[si].x)
                 dy    == FSub(p[ti].y, p[si].y)
                 dist  == OrElse(FSqrt(FAdd(FMul(dx, dx), FMul(dy, dy))), Num(1))
                 force == FMul(FMul(FSub(dist, k), CfgAttraction), alpha)
                 fx    == FMul(FDiv(dx, dist), force)
                 fy    == FMul(FDiv(dy, dist), force)
                 p1    == [p EXCEPT ![si].vx = FAdd(@, fx), ![si].vy = FAdd(@, fy)]
             IN  [p1 EXCEPT ![ti].vx = FSub(@, fx), ![ti].vy = FSub(@, fy)]

RECURSIVE AttractFrom(_, _, _, _, _, _)
AttractFrom(p, ns, es, n, k, alpha) ==
    IF n > Len(es) THEN p
    ELSE AttractFrom(AttractEdge(p, ns, es[n], k, alpha), ns, es, n + 1, k, alpha)

\* a fixed node that is put back in place but keeps the velocity the forces gave it
HoldFixedKeepVelocity(q, n) ==
    [x |-> Nullish(n.x, q.x), y |-> Nullish(n.y, q.y), vx |-> q.vx, vy |-> q.vy]

\* the body of the last loop for a node with n.fixed
HoldFixed(q, n) ==
    [x |-> Nullish(n.x, q.x), y |-> Nullish(n.y, q.y), vx |-> 0, vy |-> 0]

\* the body of the last loop for a free node: gravity, integration, damping
MoveFree(q, c, alpha) ==
    LET vx1 == FAdd(q.vx, FMul(FMul(FSub(CenterX(c), q.x), CfgGravity), alpha))
        vy1 == FAdd(q.vy, FMul(FMul(FSub(CenterY(c), q.y), CfgGravity), alpha))
    IN  [x  |-> FAdd(q.x, FMul(vx1, CfgIntegration)),
         y  |-> FAdd(q.y, FMul(vy1, CfgIntegration)),
         vx |-> FMul(vx1, CfgDamping),
         vy |-> FMul(vy1, CfgDamping)]

Integrate(p, ns, c, alpha) ==
    [i \in 1..Len(p) |->
        IF ns[i].fixed THEN HoldFixed(p[i], ns[i]) ELSE MoveFree(p[i], c, alpha)]

\* const useBarnesHut = nodes.length > cfg.barnesHutThreshold
UseBarnesHut(ns, c) == Len(ns) > c.barnesHutThreshold

\* the repulsion pass of this step ends with a RangeError
StepThrows(p, ns, c) == UseBarnesHut(ns, c) /\ Len(p) > 0 /\ BuildTree(p).overflow

\* lines 261-305 of step: repulsion, attraction, gravity + integration
StepForces(p, ns, es, c, alpha) ==
    LET k  == SpringLength(c, Len(ns))
        p1 == IF UseBarnesHut(ns, c)
              THEN IF Len(p) = 0 THEN p
                   ELSE applyRepulsionBarnesHut(p, RepulsionConstant(c, Len(ns)), alpha,
                                                c.barnesHutTheta)
              ELSE applyRepulsionBruteForce(p, RepulsionConstant(c, Len(ns)), alpha)
        p2 == AttractFrom(p1, ns, es, 1, k, alpha)
    IN  Integrate(p2, ns, c, alpha)

(***************************************************************************)
(* The host's frame scheduler (requestAnimationFrame / cancelAnimationFrame)*)
(* and the callbacks.                                                      *)
(***************************************************************************)
\* a host whose cancelAnimationFrame drops every pending callback
CancelEveryFrame(q, id) == {}

\* cancelAnimationFrame(id): the pending callback with that handle is dropped
CancelAnimationFrame(q, id) == q \ {id}

\* a closure that captured the handle of the first request only
cancelFirstHandle(q, id) == CancelAnimationFrame(q, 1)

\* a closure that requests a frame again when its handle is not pending
cancelOrResume(q, id) == IF id \in q THEN q \ {id} ELSE q \cup {id}

\* the closure runSimulation returns: () => cancelAnimationFrame(animId)
cancel(q, id) == CancelAnimationFrame(q, id)

\* [...pos]: a new array holding the same object references as pos
SpreadCopy(p) == [i \in 1..Len(p) |-> i]

\* what a holder of snapshot array `refs' reads from it now
Deref(refs, p) == [i \in 1..Len(refs) |-> p[refs[i]]]

\* the record of one onTick(snapshot) call; vals is what the snapshot read when delivered
TickCall(p, fno, st, fin) ==
    [kind |-> "tick", final |-> fin, frameNo |-> fno, step |-> st,
     refs |-> SpreadCopy(p), vals |-> Deref(SpreadCopy(p), p)]

\* the record of one onEnd(snapshot) call
EndCall(p, fno, st) ==
    [kind |-> "end", final |-> TRUE, frameNo |-> fno, step |-> st,
     refs |-> SpreadCopy(p), vals |-> Deref(SpreadCopy(p), p)]

\* a final branch that calls onEnd without the final onTick
FinalCallsEndOnly(p, fno, st) == << EndCall(p, fno, st) >>

\* the alpha <= 0 branch of step: onTick([...pos]); onEnd([...pos]); return
FinalCalls(p, fno, st) == << TickCall(p, fno, st, TRUE), EndCall(p, fno, st) >>

\* if (frame % cfg.tickInterval === 0) onTick([...pos])
BatchedCalls(p, fno, st, interval) ==
    IF st % interval = 0 THEN << TickCall(p, fno, st, FALSE) >> ELSE << >>

Ended == \E k \in 1..Len(log) : log[k].kind = "end"

(***************************************************************************)
(* runSimulation(nodes, edges, width, height, onTick, onEnd, config)       *)
(* has returned: pos is initialised and the first frame is requested.      *)
(***************************************************************************)
SimInit ==
    /\ nodes \in NodeLists
    /\ edges \in EdgeLists
    /\ \E c \in Canvases, it \in 0..MaxIter, ti \in TickIntervals :
          cfg = [width |-> c.width, height |-> c.height,
                 iterations |-> it, tickInterval |-> ti,
                 barnesHutThreshold |-> CfgBarnesHutThreshold,
                 barnesHutTheta |-> CfgBarnesHutTheta]
    /\ random \in RandomStreams
    \* Math.random() is called only for a node without hints
    /\ (\A i \in 1..Len(nodes) : nodes[i].x # Undefined) => random = NoRandom
    /\ pos = InitialPos(nodes, cfg, random)
    /\ frame = 0
    /\ animId = 1
    /\ rafQueue = {1}
    /\ nextRafId = 2
    /\ log = << >>
    /\ framesRun = 0
    /\ idleFrames = 0
    /\ cancelCalls = 0
    /\ betweenCancelAt = -1
    /\ tickCancelAt = -1
    /\ consumerWrites = 0
    /\ passes = << >>
    /\ thrown = FALSE
    /\ peer = PeerIdle
    /\ LayoutIdle
    /\ GeomIdle
    /\ QtIdle

(***************************************************************************)
(* The host runs the pending frame callback h, which is step.  The onTick  *)
(* callback it invokes may itself call cancel() (cancelInTick).            *)
(***************************************************************************)
StepCall(h, cancelInTick) ==
    LET q0    == rafQueue \ {h}
        alpha == Alpha(frame, cfg.iterations)
        fno   == framesRun + 1
        \* the effect of a cancel() made by the onTick callback
        q1    == IF cancelInTick THEN cancel(q0, animId) ELSE q0
    IN  /\ framesRun' = fno
        /\ IF LeqZero(alpha)
           THEN /\ cancelInTick => cancelCalls < MaxCancels
                /\ log' = log \o FinalCalls(pos, fno, frame)
                /\ tickCancelAt' = IF cancelInTick /\ tickCancelAt = -1
                                   THEN Len(log) + 1 ELSE tickCancelAt
                /\ rafQueue' = q1
                /\ UNCHANGED <<pos, frame, animId, nextRafId, passes, thrown>>
           ELSE IF StepThrows(pos, nodes, cfg)
           \* qtInsert never returns: the callback ends before anything was changed
           THEN /\ ~cancelInTick
                /\ passes' = Append(passes, "barnesHut")
                /\ thrown' = TRUE
                /\ rafQueue' = q0
                /\ UNCHANGED <<pos, frame, animId, nextRafId, log, tickCancelAt>>
           ELSE LET p1    == StepForces(pos, nodes, edges, cfg, alpha)
                    calls == BatchedCalls(p1, fno, frame + 1, cfg.tickInterval)
                IN  /\ cancelInTick => calls # << >> /\ cancelCalls < MaxCancels
                    /\ passes' = Append(passes, IF UseBarnesHut(nodes, cfg)
                                                 THEN "barnesHut" ELSE "bruteForce")
                    /\ thrown' = thrown
                    /\ pos' = p1
                    /\ frame' = frame + 1
                    /\ log' = log \o calls
                    /\ tickCancelAt' = IF cancelInTick /\ tickCancelAt = -1
                                       THEN Len(log) + 1 ELSE tickCancelAt
                    \* animId = requestAnimationFrame(step)
                    /\ animId' = nextRafId
                    /\ rafQueue' = q1 \cup {nextRafId}
                    /\ nextRafId' = nextRafId + 1
        /\ cancelCalls' = IF cancelInTick THEN cancelCalls + 1 ELSE cancelCalls
        \* cancelAnimationFrame acts on the host's one table of pending callbacks
        /\ peer' = IF cancelInTick
                   THEN [peer EXCEPT !.rafQueue = cancel(@, animId)] ELSE peer
        /\ UNCHANGED <<idleFrames, betweenCancelAt, consumerWrites>>
        /\ UNCHANGED <<inputVars, layoutVars, geomVars, qtVars>>

Step == \E h \in rafQueue, cancelInTick \in BOOLEAN : StepCall(h, cancelInTick)

\* the caller invokes the returned cancel() between two frame callbacks
CancelBetweenFrames ==
    /\ cancelCalls < MaxCancels
    /\ rafQueue' = cancel(rafQueue, animId)
    /\ peer' = [peer EXCEPT !.rafQueue = cancel(@, animId)]
    /\ cancelCalls' = cancelCalls + 1
    /\ betweenCancelAt' = IF betweenCancelAt = -1 /\ ~Ended
                          THEN Len(log) ELSE betweenCancelAt
    /\ UNCHANGED <<pos, frame, animId, nextRafId, log, framesRun, idleFrames,
                   tickCancelAt, consumerWrites, passes, thrown>>
    /\ UNCHANGED <<inputVars, layoutVars, geomVars, qtVars>>

\* the host renders a frame for which no callback is pending
IdleFrame ==
    /\ rafQueue = {}
    /\ idleFrames < MaxIdle
    /\ idleFrames' = idleFrames + 1
    /\ UNCHANGED <<pos, frame, animId, rafQueue, nextRafId, log, framesRun,
                   cancelCalls, betweenCancelAt, tickCancelAt, consumerWrites,
                   passes, thrown, peer>>
    /\ UNCHANGED <<inputVars, layoutVars, geomVars, qtVars>>

Init == SimInit

Next == Step \/ CancelBetweenFrames \/ IdleFrame

Spec == Init /\ [][Next]_vars

(***************************************************************************)
(* A consumer that keeps a delivered snapshot and later assigns to a field *)
(* of one of its entries (snapshot[i].x = v).                              *)
(***************************************************************************)
ConsumerWrite ==
    /\ consumerWrites < MaxWrites
    /\ \E k \in 1..Len(log) :
         \E i \in 1..Len(log[k].refs), v \in WriteValues :
            pos' = [pos EXCEPT ![log[k].refs[i]].x = v]
    /\ consumerWrites' = consumerWrites + 1
    /\ UNCHANGED <<frame, animId, rafQueue, nextRafId, log, framesRun, idleFrames,
                   cancelCalls, betweenCancelAt, tickCancelAt, passes, thrown, peer>>
    /\ UNCHANGED <<inputVars, layoutVars, geomVars, qtVars>>

ConsumerNext == Step \/ CancelBetweenFrames \/ IdleFrame \/ ConsumerWrite

ConsumerSpec == Init /\ [][ConsumerNext]_vars

(***************************************************************************)
(* runSimulation with a barnesHutThreshold small enough for the quadtree   *)
(* pass to be taken.  Every node carries hints; two nodes may carry the    *)
(* same hint.                                                               *)
(***************************************************************************)
MaxBhNodes == 3

BhThresholds == {1, 2}

BhHints == { <<5, 20>>, <<30, 25>>, <<20, 5>> }

BhShapes(i) ==
    { [id |-> NodeIds[i], x |-> Num(h[1]), y |-> Num(h[2]), fixed |-> FALSE] : h \in BhHints }

BhNodeLists ==
    UNION { { ns \in [1..n -> UNION { BhShapes(i) : i \in 1..n }] :
                \A i \in 1..n : ns[i] \in BhShapes(i) } : n \in 1..MaxBhNodes }

BhEdgeLists == { <<>>, << [source |-> "a", target |-> "b"] >> }

BhInit ==
    /\ nodes \in BhNodeLists
    /\ edges \in BhEdgeLists
    /\ \E c \in Canvases, it \in 0..MaxIter, th \in BhThresholds :
          cfg = [width |-> c.width, height |-> c.height,
                 iterations |-> it, tickInterval |-> 1,
                 barnesHutThreshold |-> th,
                 barnesHutTheta |-> CfgBarnesHutTheta]
    /\ random = NoRandom
    /\ pos = InitialPos(nodes, cfg, random)
    /\ frame = 0
    /\ animId = 1
    /\ rafQueue = {1}
    /\ nextRafId = 2
    /\ log = << >>
    /\ framesRun = 0
    /\ idleFrames = 0
    /\ cancelCalls = 0
    /\ betweenCancelAt = -1
    /\ tickCancelAt = -1
    /\ consumerWrites = 0
    /\ passes = << >>
    /\ thrown = FALSE
    /\ peer = PeerIdle
    /\ LayoutIdle
    /\ GeomIdle
    /\ QtIdle

BhSpec == BhInit /\ [][Next]_vars

(***************************************************************************)
(* Two runSimulation calls on one host.  Each call has its own closure     *)
(* (cfg, pos, idx, frame, animId); the host owns the handle counter and    *)
(* the table of pending callbacks, in which every callback belongs to the  *)
(* run that requested it.  The first run is the one of the variables       *)
(* above; the second is the record peer, started at any moment.            *)
(***************************************************************************)
MaxPeerCancels == 1

TwoNodeLists ==
    { ns \in NodeLists : /\ Len(ns) >= 1
                         /\ \A i \in 1..Len(ns) : ns[i].x # Undefined /\ ~ns[i].fixed }

TwoEdgeLists == { <<>>, << [source |-> "a", target |-> "b"] >> }

PeerNodeLists ==
    { << [id |-> "a", x |-> Num(30), y |-> Num(25), fixed |-> FALSE] >>,
      << [id |-> "b", x |-> Num(20), y |-> Num(5), fixed |-> FALSE],
         [id |-> "a", x |-> Num(35), y |-> Num(10), fixed |-> FALSE] >> }

PeerInputs ==
    { [ns |-> ns, es |-> << >>, it |-> 2, ti |-> ti] :
        ns \in PeerNodeLists, ti \in TickIntervals }

\* the second runSimulation(nodes, edges, width, height, onTick, onEnd, config)
PeerStart ==
    /\ ~peer.started
    /\ \E c \in Canvases, i \in PeerInputs :
         LET pcfg == [width |-> c.width, height |-> c.height,
                      iterations |-> i.it, tickInterval |-> i.ti,
                      barnesHutThreshold |-> CfgBarnesHutThreshold,
                      barnesHutTheta |-> CfgBarnesHutTheta]
         IN  peer' = [started |-> TRUE, nodes |-> i.ns, edges |-> i.es, cfg |-> pcfg,
                      pos |-> InitialPos(i.ns, pcfg, NoRandom), frame |-> 0,
                      \* animId = requestAnimationFrame(step)
                      animId |-> nextRafId, rafQueue |-> {nextRafId}, log |-> << >>,
                      framesRun |-> 0, cancelCalls |-> 0]
    /\ nextRafId' = nextRafId + 1
    /\ UNCHANGED <<pos, frame, animId, rafQueue, log, framesRun, idleFrames,
                   cancelCalls, betweenCancelAt, tickCancelAt, consumerWrites,
                   passes, thrown>>
    /\ UNCHANGED <<inputVars, layoutVars, geomVars, qtVars>>

\* the host runs the pending callback h of the second run, which is its step
PeerStepCall(h) ==
    LET alpha == Alpha(peer.frame, peer.cfg.iterations)
        fno   == peer.framesRun + 1
    IN  /\ IF LeqZero(alpha)
           THEN /\ peer' = [peer EXCEPT
                               !.rafQueue = @ \ {h},
                               !.framesRun = fno,
                               !.log = @ \o FinalCalls(peer.pos, fno, peer.frame)]
                /\ nextRafId' = nextRafId
           ELSE LET p1 == StepForces(peer.pos, peer.nodes, peer.edges, peer.cfg, alpha)
                IN  /\ peer' = [peer EXCEPT
                                   !.pos = p1,
                                   !.frame = @ + 1,
                                   !.framesRun = fno,
                                   !.log = @ \o BatchedCalls(p1, fno, peer.frame + 1,
                                                            peer.cfg.tickInterval),
                                   !.animId = nextRafId,
                                   !.rafQueue = (@ \ {h}) \cup {nextRafId}]
                    /\ nextRafId' = nextRafId + 1
        /\ UNCHANGED <<pos, frame, animId, rafQueue, log, framesRun, idleFrames,
                       cancelCalls, betweenCancelAt, tickCancelAt, consumerWrites,
                       passes, thrown>>
        /\ UNCHANGED <<inputVars, layoutVars, geomVars, qtVars>>

PeerStep == \E h \in peer.rafQueue : PeerStepCall(h)

\* the caller invokes the cancel() returned by the second call
PeerCancel ==
    /\ peer.started
    /\ peer.cancelCalls < MaxPeerCancels
    /\ peer' = [peer EXCEPT !.rafQueue = cancel(@, peer.animId),
                            !.cancelCalls = @ + 1]
    /\ rafQueue' = cancel(rafQueue, peer.animId)
    /\ UNCHANGED <<pos, frame, animId, nextRafId, log, framesRun, idleFrames,
                   cancelCalls, betweenCancelAt, tickCancelAt, consumerWrites,
                   passes, thrown>>
    /\ UNCHANGED <<inputVars, layoutVars, geomVars, qtVars>>

TwoInit ==
    /\ SimInit
    /\ nodes \in TwoNodeLists
    /\ edges \in TwoEdgeLists
    /\ cfg.iterations \in 1..2
    /\ cfg.tickInterval = 1

TwoNext == Step \/ CancelBetweenFrames \/ IdleFrame \/ PeerStart \/ PeerStep \/ PeerCancel

TwoSpec == TwoInit /\ [][TwoNext]_vars

(***************************************************************************)
(* network-graph-layouts.ts: buildLayers.                                  *)
(* A Map or Record keyed by id is a function whose domain is its key set.  *)
(***************************************************************************)
IdsOf(ns) == { ns[i].id : i \in 1..Len(ns) }

\* children: an entry [] per node, then children.get(e.source)?.push(e.target)
ChildrenOf(ns, es, id) ==
    LET RECURSIVE Collect(_)
        Collect(n) ==
            IF n = 0 THEN << >>
            ELSE IF es[n].source = id THEN Append(Collect(n - 1), es[n].target)
            ELSE Collect(n - 1)
    IN  IF id \in IdsOf(ns) THEN Collect(Len(es)) ELSE << >>

\* incoming.get(id) ?? 0 after the edge loop
Incoming(es, id) == Cardinality({ n \in 1..Len(es) : es[n].target = id })

\* a root selection that always takes nodes[0]
FindRootFirstNode(ns, es) == ns[1].id

\* roots.length > 0 ? roots[0].id : nodes[0].id
FindRoot(ns, es) ==
    LET roots == { i \in 1..Len(ns) : Incoming(es, ns[i].id) = 0 }
    IN  IF roots # {} THEN ns[CHOOSE i \in roots : \A j \in roots : i <= j].id
        ELSE ns[1].id

\* a child loop without the depth.has(child) test
RECURSIVE VisitChildrenUnseenOrNot(_, _, _, _)
VisitChildrenUnseenOrNot(kids, n, d, st) ==
    IF n > Len(kids) THEN st
    ELSE VisitChildrenUnseenOrNot(kids, n + 1, d,
                                  [queue |-> Append(st.queue, kids[n]),
                                   depth |-> (kids[n] :> (d + 1)) @@ st.depth])

\* a child loop in which the last assignment of a depth wins
RECURSIVE VisitChildrenLastWins(_, _, _, _)
VisitChildrenLastWins(kids, n, d, st) ==
    IF n > Len(kids) THEN st
    ELSE IF kids[n] \in DOMAIN st.depth
    THEN VisitChildrenLastWins(kids, n + 1, d,
                               [queue |-> st.queue,
                                depth |-> (kids[n] :> (d + 1)) @@ st.depth])
    ELSE VisitChildrenLastWins(kids, n + 1, d,
                               [queue |-> Append(st.queue, kids[n]),
                                depth |-> (kids[n] :> (d + 1)) @@ st.depth])

\* the for loop over the children of one dequeued id: st = [queue, depth]
RECURSIVE VisitChildren(_, _, _, _)
VisitChildren(kids, n, d, st) ==
    IF n > Len(kids) THEN st
    ELSE IF kids[n] \in DOMAIN st.depth THEN VisitChildren(kids, n + 1, d, st)
    ELSE VisitChildren(kids, n + 1, d,
                       [queue |-> Append(st.queue, kids[n]),
                        depth |-> (kids[n] :> (d + 1)) @@ st.depth])

\* while (queue.length > 0) { const id = queue.shift() ... }
RECURSIVE Bfs(_, _, _)
Bfs(ns, es, st) ==
    IF st.queue = << >> THEN st.depth
    ELSE LET id == Head(st.queue)
         IN  Bfs(ns, es,
                 VisitChildren(ChildrenOf(ns, es, id), 1, st.depth[id],
                               [queue |-> Tail(st.queue), depth |-> st.depth]))

BfsDepth(ns, es) ==
    Bfs(ns, es, [queue |-> << FindRoot(ns, es) >>, depth |-> (FindRoot(ns, es) :> 0)])

\* let maxDepth = 0; for (const d of depth.values()) if (d > maxDepth) maxDepth = d
MaxDepthOf(depth) ==
    IF DOMAIN depth = {} THEN 0
    ELSE LET top == CHOOSE id \in DOMAIN depth : \A o \in DOMAIN depth : depth[o] <= depth[id]
         IN  Max(0, depth[top])

\* the depth map after the unreachable nodes were given maxDepth + 1
FinalDepth(ns, es) ==
    LET reached == BfsDepth(ns, es)
        orphan  == MaxDepthOf(reached) + 1
    IN  [id \in DOMAIN reached \cup IdsOf(ns) |->
            IF id \in DOMAIN reached THEN reached[id] ELSE orphan]

\* layers: for (const n of nodes) layers[depth.get(n.id)].push(n.id)
LayersOf(ns, depth) ==
    LET RECURSIVE Members(_, _)
        Members(d, n) ==
            IF n = 0 THEN << >>
            ELSE IF depth[ns[n].id] = d THEN Append(Members(d, n - 1), ns[n].id)
            ELSE Members(d, n - 1)
    IN  [d \in { depth[ns[i].id] : i \in 1..Len(ns) } |-> Members(d, Len(ns))]

\* layers built from the nodes the BFS reached only
buildLayersReachedOnly(ns, es) ==
    [layers   |-> LayersOf(SelectSeq(ns, LAMBDA n : n.id \in DOMAIN BfsDepth(ns, es)),
                           BfsDepth(ns, es)),
     maxDepth |-> MaxDepthOf(BfsDepth(ns, es))]

buildLayers(ns, es) ==
    [layers   |-> LayersOf(ns, FinalDepth(ns, es)),
     maxDepth |-> MaxDepthOf(FinalDepth(ns, es))]

(***************************************************************************)
(* computeTreeLayout and computeRadialLayout.                              *)
(***************************************************************************)
Pad == 60

RingMargin == 80

\* positions[id] = v
Put(positions, id, v) ==
    [k \in DOMAIN positions \cup {id} |-> IF k = id THEN v ELSE positions[k]]

\* Object.entries(layers): the depths in ascending order
RECURSIVE SortedDepths(_)
SortedDepths(ds) ==
    IF ds = {} THEN << >>
    ELSE LET least == CHOOSE d \in ds : \A o \in ds : d <= o
         IN  << least >> \o SortedDepths(ds \ {least})

\* a placement that counts the depth from the right-hand side
TreePlaceRightToLeft(width, height, maxDepth, d, i, count) ==
    [x |-> IF maxDepth = 0 THEN FDiv(width, Num(2))
           ELSE FAdd(Num(Pad),
                     FDiv(FMul(FSub(width, Num(Pad * 2)), Num(maxDepth - d)),
                          Num(maxDepth))),
     y |-> IF count = 1 THEN FDiv(height, Num(2))
           ELSE FAdd(Num(Pad),
                     FDiv(FMul(FSub(height, Num(Pad * 2)), Num(i)), Num(count - 1)))]

TreePlace(width, height, maxDepth, d, i, count) ==
    [x |-> IF maxDepth = 0 THEN FDiv(width, Num(2))
           ELSE FAdd(Num(Pad),
                     FDiv(FMul(FSub(width, Num(Pad * 2)), Num(d)), Num(maxDepth))),
     y |-> IF count = 1 THEN FDiv(height, Num(2))
           ELSE FAdd(Num(Pad),
                     FDiv(FMul(FSub(height, Num(Pad * 2)), Num(i)), Num(count - 1)))]

\* the inner loop of computeTreeLayout, from member n of the layer at depth d
RECURSIVE TreeLayer(_, _, _, _, _, _, _)
TreeLayer(positions, members, d, n, width, height, maxDepth) ==
    IF n > Len(members) THEN positions
    ELSE TreeLayer(Put(positions, members[n],
                       TreePlace(width, height, maxDepth, d, n - 1, Len(members))),
                   members, d, n + 1, width, height, maxDepth)

\* the outer loop of computeTreeLayout, from the n-th entry of layers
RECURSIVE TreeLayers(_, _, _, _, _, _)
TreeLayers(positions, built, ds, n, width, height) ==
    IF n > Len(ds) THEN positions
    ELSE TreeLayers(TreeLayer(positions, built.layers[ds[n]], ds[n], 1,
                              width, height, built.maxDepth),
                    built, ds, n + 1, width, height)

computeTreeLayout(ns, es, width, height) ==
    IF Len(ns) = 0 THEN << >>
    ELSE TreeLayers(<< >>, buildLayers(ns, es),
                    SortedDepths(DOMAIN buildLayers(ns, es).layers), 1, width, height)

\* cos and sin of i/n of a full turn, in units of 1/TRIG
TRIG == 10000

TurnTable ==
    << << <<10000, 0>> >>,
       << <<10000, 0>>, <<-10000, 0>> >>,
       << <<10000, 0>>, <<-5000, 8660>>, <<-5000, -8660>> >>,
       << <<10000, 0>>, <<0, 10000>>, <<-10000, 0>>, <<0, -10000>> >>,
       << <<10000, 0>>, <<3090, 9511>>, <<-8090, 5878>>, <<-8090, -5878>>,
          <<3090, -9511>> >>,
       << <<10000, 0>>, <<5000, 8660>>, <<-5000, 8660>>, <<-10000, 0>>,
          <<-5000, -8660>>, <<5000, -8660>> >> >>

\* radius * Math.cos(angle), angle = (2 * Math.PI * i) / count - Math.PI / 2:
\* cos(t - pi/2) = sin(t)
RadiusCos(radius, i, count) ==
    Sign(radius) * Sign(TurnTable[count][i + 1][2])
        * MulDiv(radius, TurnTable[count][i + 1][2], TRIG)

\* radius * Math.sin(angle): sin(t - pi/2) = -cos(t)
RadiusSin(radius, i, count) ==
    (0 - Sign(radius)) * Sign(TurnTable[count][i + 1][1])
        * MulDiv(radius, TurnTable[count][i + 1][1], TRIG)

FMin(a, b) == IF a = NaN \/ b = NaN THEN NaN ELSE IF a <= b THEN a ELSE b

\* a placement whose first slot points to the right: angle = 2 * PI * i / count
RadialPlaceFromEast(width, height, maxDepth, d, i, count) ==
    LET cx        == FDiv(width, Num(2))
        cy        == FDiv(height, Num(2))
        maxRadius == FSub(FDiv(FMin(width, height), Num(2)), Num(RingMargin))
        radius    == IF maxDepth = 0 THEN 0
                     ELSE FMul(FDiv(Num(d), Num(maxDepth)), maxRadius)
    IN  IF d = 0 THEN [x |-> cx, y |-> cy]
        ELSE [x |-> FSub(cx, RadiusSin(radius, i, count)),
              y |-> FAdd(cy, RadiusCos(radius, i, count))]

RadialPlace(width, height, maxDepth, d, i, count) ==
    LET cx        == FDiv(width, Num(2))
        cy        == FDiv(height, Num(2))
        maxRadius == FSub(FDiv(FMin(width, height), Num(2)), Num(RingMargin))
        radius    == IF maxDepth = 0 THEN 0
                     ELSE FMul(FDiv(Num(d), Num(maxDepth)), maxRadius)
    IN  IF d = 0 THEN [x |-> cx, y |-> cy]
        ELSE [x |-> FAdd(cx, RadiusCos(radius, i, count)),
              y |-> FAdd(cy, RadiusSin(radius, i, count))]

\* the inner loops of computeRadialLayout, from member n of the layer at depth d
RECURSIVE RadialLayer(_, _, _, _, _, _, _)
RadialLayer(positions, members, d, n, width, height, maxDepth) ==
    IF n > Len(members) THEN positions
    ELSE RadialLayer(Put(positions, members[n],
                         RadialPlace(width, height, maxDepth, d, n - 1, Len(members))),
                     members, d, n + 1, width, height, maxDepth)

\* the outer loop of computeRadialLayout, from the n-th entry of layers
RECURSIVE RadialLayers(_, _, _, _, _, _)
RadialLayers(positions, built, ds, n, width, height) ==
    IF n > Len(ds) THEN positions
    ELSE RadialLayers(RadialLayer(positions, built.layers[ds[n]], ds[n], 1,
                                  width, height, built.maxDepth),
                      built, ds, n + 1, width, height)

computeRadialLayout(ns, es, width, height) ==
    IF Len(ns) = 0 THEN << >>
    ELSE RadialLayers(<< >>, buildLayers(ns, es),
                      SortedDepths(DOMAIN buildLayers(ns, es).layers), 1, width, height)

(***************************************************************************)
(* The static layouts applied to a graph.                                  *)
(***************************************************************************)
MaxLayoutEdges == 2

LayoutNodeLists == { [i \in 1..n |-> [id |-> NodeIds[i]]] : n \in 0..MaxLayoutNodes }

\* edges between the nodes, and edges from and to an id "z" that is no node
LayoutEdgesFor(ns) ==
    LET ends  == IdsOf(ns) \cup {"z"}
        pairs == { e \in [source : ends, target : ends] :
                      (e.source = "z" \/ e.target = "z") =>
                          (e.source \in {"z", NodeIds[1]} /\ e.target \in {"z", NodeIds[1]}) }
    IN  UNION { [1..m -> pairs] : m \in 0..MaxLayoutEdges }

LayoutCanvases == { [width |-> Num(800), height |-> Num(500)],
                    [width |-> Num(300), height |-> Num(400)],
                    [width |-> Num(100), height |-> Num(140)] }

LayoutInit ==
    /\ nodes \in LayoutNodeLists
    /\ edges \in LayoutEdgesFor(nodes)
    /\ \E c \in LayoutCanvases :
          cfg = [width |-> c.width, height |-> c.height,
                 iterations |-> 0, tickInterval |-> 1]
    /\ SimIdle
    /\ LayoutIdle
    /\ GeomIdle
    /\ QtIdle

ComputeTree ==
    /\ treeOut = << >>
    /\ treeOut' = << computeTreeLayout(nodes, edges, cfg.width, cfg.height) >>
    /\ UNCHANGED <<radialOut, bfsVars, inputVars, simVars, geomVars, qtVars>>

ComputeRadial ==
    /\ radialOut = << >>
    /\ radialOut' = << computeRadialLayout(nodes, edges, cfg.width, cfg.height) >>
    /\ UNCHANGED <<treeOut, bfsVars, inputVars, simVars, geomVars, qtVars>>

LayoutNext == ComputeTree \/ ComputeRadial

LayoutSpec == LayoutInit /\ [][LayoutNext]_vars

(***************************************************************************)
(* buildLayers, one iteration of its BFS while loop at a time.  The        *)
(* layouts call it for a non-empty node list only.                         *)
(***************************************************************************)
BfsInit ==
    /\ nodes \in LayoutNodeLists
    /\ Len(nodes) > 0
    /\ edges \in LayoutEdgesFor(nodes)
    /\ cfg = [width |-> Num(800), height |-> Num(500), iterations |-> 0, tickInterval |-> 1]
    /\ SimIdle
    /\ GeomIdle
    /\ QtIdle
    /\ treeOut = << >>
    /\ radialOut = << >>
    /\ bfsPc = "loop"
    /\ bfsQueue = << FindRoot(nodes, edges) >>
    /\ bfsDepth = (FindRoot(nodes, edges) :> 0)
    /\ bfsPushed = << FindRoot(nodes, edges) >>
    /\ bfsOut = << >>

\* const id = queue.shift(); for (const child of children.get(id) ?? []) ...
BfsIterate ==
    /\ bfsPc = "loop"
    /\ bfsQueue # << >>
    /\ LET id == Head(bfsQueue)
           st == VisitChildren(ChildrenOf(nodes, edges, id), 1, bfsDepth[id],
                               [queue |-> Tail(bfsQueue), depth |-> bfsDepth])
       IN  /\ bfsQueue' = st.queue
           /\ bfsDepth' = st.depth
           /\ bfsPushed' = bfsPushed \o SubSeq(st.queue, Len(bfsQueue), Len(st.queue))
    /\ UNCHANGED <<bfsPc, bfsOut, treeOut, radialOut, inputVars, simVars, geomVars, qtVars>>

\* queue.length > 0 is false: the loop is left
BfsExit ==
    /\ bfsPc = "loop"
    /\ bfsQueue = << >>
    /\ bfsPc' = "done"
    /\ UNCHANGED <<bfsQueue, bfsDepth, bfsPushed, bfsOut, treeOut, radialOut, inputVars,
                   simVars, geomVars, qtVars>>

\* the rest of buildLayers: unreachable nodes get maxDepth + 1, maxDepth is
\* recalculated, the nodes are grouped by layer, { layers, maxDepth } is returned
BfsFinish ==
    /\ bfsPc = "done"
    /\ LET orphan == MaxDepthOf(bfsDepth) + 1
           final  == [id \in DOMAIN bfsDepth \cup IdsOf(nodes) |->
                         IF id \in DOMAIN bfsDepth THEN bfsDepth[id] ELSE orphan]
       IN  /\ bfsDepth' = final
           /\ bfsOut' = << [layers |-> LayersOf(nodes, final),
                            maxDepth |-> MaxDepthOf(final)] >>
    /\ bfsPc' = "returned"
    /\ UNCHANGED <<bfsQueue, bfsPushed, treeOut, radialOut, inputVars, simVars, geomVars,
                   qtVars>>

BfsNext == BfsIterate \/ BfsExit \/ BfsFinish

\* a started loop keeps executing its iterations
BfsSpec == BfsInit /\ [][BfsNext]_vars /\ WF_vars(BfsNext)

(***************************************************************************)
(* Geometry utilities: getNodeExitPoint.  A unit-vector component is kept  *)
(* in units of 1/TRIG; Infinity and -Infinity are values of their own.     *)
(***************************************************************************)
Infinity == 1073741823

NegInfinity == 0 - 1073741823

\* const dist = Math.sqrt(dx * dx + dy * dy) || 1
ExitDist(dx, dy) == OrElse(ISqrtBetween(dx * dx + dy * dy, 0, 46340), Num(1))

\* dx / dist
UnitComponent(d, dist) == Sign(d) * MulDiv(d, TRIG, dist)

\* Math.abs(u) > 0 ? h / Math.abs(u) : Infinity
ExitParam(h, u) == IF Abs(u) > 0 THEN MulDiv(h, TRIG, Abs(u)) ELSE Infinity

\* the larger of the two parameters
MaxT(a, b) == IF a >= b THEN a ELSE b

\* Math.min(tX, tY)
MinT(a, b) == IF a <= b THEN a ELSE b

\* u * t: 0 * Infinity is NaN
TimesT(u, t) ==
    IF t = Infinity
    THEN IF u = 0 THEN NaN ELSE IF u > 0 THEN Infinity ELSE NegInfinity
    ELSE Sign(u) * MulDiv(u, t, TRIG)

\* s + v
PlusT(v, w) == IF w \in {NaN, Infinity, NegInfinity} THEN w ELSE v + w

getNodeExitPoint(source, target, bounds) ==
    LET dx   == FSub(target.x, source.x)
        dy   == FSub(target.y, source.y)
        dist == ExitDist(dx, dy)
        ux   == UnitComponent(dx, dist)
        uy   == UnitComponent(dy, dist)
        hw   == FDiv(bounds.width, Num(2))
        hh   == FDiv(bounds.height, Num(2))
        t    == MinT(ExitParam(hw, ux), ExitParam(hh, uy))
    IN  [x |-> PlusT(source.x, TimesT(ux, t)),
         y |-> PlusT(source.y, TimesT(uy, t))]

MaxGeo == 4

GeoPoints == { [x |-> Num(50 * i), y |-> Num(50 * j)] : i, j \in (0 - 1)..MaxGeo }

GeoBounds == { [width |-> Num(100), height |-> Num(50)],
               [width |-> Num(40), height |-> Num(60)] }

GeomInit ==
    /\ \E s \in GeoPoints, t \in GeoPoints, b \in GeoBounds :
          exitArgs = << [source |-> s, target |-> t, bounds |-> b] >>
    /\ exitOut = << >>
    /\ keyArgs = << >>
    /\ keyOut = << >>
    /\ nodes = << >>
    /\ edges = << >>
    /\ cfg = [width |-> Num(800), height |-> Num(500), iterations |-> 0, tickInterval |-> 1]
    /\ SimIdle
    /\ LayoutIdle
    /\ QtIdle

ComputeExit ==
    /\ exitOut = << >>
    /\ exitOut' = << getNodeExitPoint(exitArgs[1].source, exitArgs[1].target,
                                      exitArgs[1].bounds) >>
    /\ UNCHANGED <<exitArgs, keyArgs, keyOut, inputVars, simVars, layoutVars, qtVars>>

GeomNext == ComputeExit

GeomSpec == GeomInit /\ [][GeomNext]_vars

(***************************************************************************)
(* The two repulsion passes called on their own, on the same bodies.       *)
(***************************************************************************)
MaxQtBodies == 3

\* where a body may be (plain numbers)
QtPoints == { <<0, 0>>, <<0, 40>>, <<3, 4>>, <<30, 20>>, <<7, 0>> }

QtBodyLists ==
    UNION { [1..n -> { [x |-> Num(pt[1]), y |-> Num(pt[2]), vx |-> 0, vy |-> 0] :
                         pt \in QtPoints }] : n \in 1..MaxQtBodies }

QtThetas == {0, CfgBarnesHutTheta}

QtInit ==
    /\ \E p \in QtBodyLists, c \in Canvases, th \in QtThetas :
          qtArgs = << [pos |-> p, repulsion |-> RepulsionConstant(c, Len(p)),
                       alpha |-> Num(1), theta |-> th] >>
    /\ qtTree = << >>
    /\ bhOut = << >>
    /\ bhUsed = << >>
    /\ bfOut = << >>
    /\ nodes = << >>
    /\ edges = << >>
    /\ cfg = [width |-> Num(800), height |-> Num(500), iterations |-> 0, tickInterval |-> 1]
    /\ SimIdle
    /\ LayoutIdle
    /\ GeomIdle

\* applyRepulsionBarnesHut(pos, repulsion, alpha, theta); nothing is delivered
\* when the build ends with a RangeError
BarnesHutPass ==
    /\ qtTree = << >>
    /\ LET a == qtArgs[1]
       IN  /\ qtTree' = << BuildTree(a.pos) >>
           /\ IF BuildTree(a.pos).overflow
              THEN bhOut' = << >> /\ bhUsed' = << >>
              ELSE /\ bhOut' = << applyRepulsionBarnesHut(a.pos, a.repulsion, a.alpha,
                                                          a.theta) >>
                   /\ bhUsed' = [i \in 1..Len(a.pos) |->
                                   applyForceFromNode(a.pos, i, BuildTree(a.pos),
                                       a.repulsion, a.alpha, a.theta,
                                       [vx |-> 0, vy |-> 0, used |-> {}]).used]
    /\ UNCHANGED <<qtArgs, bfOut, inputVars, simVars, layoutVars, geomVars>>

\* applyRepulsionBruteForce(pos, repulsion, alpha)
BruteForcePass ==
    /\ bfOut = << >>
    /\ bfOut' = << applyRepulsionBruteForce(qtArgs[1].pos, qtArgs[1].repulsion,
                                            qtArgs[1].alpha) >>
    /\ UNCHANGED <<qtArgs, qtTree, bhOut, bhUsed, inputVars, simVars, layoutVars, geomVars>>

QtNext == BarnesHutPass \/ BruteForcePass

QtSpec == QtInit /\ [][QtNext]_vars

(***************************************************************************)
(* getEdgeKey.  A string is the sequence of its characters; Arrow stands   *)
(* for the character U+2192 of the template literal.                       *)
(***************************************************************************)
MaxIdLen == 3

Arrow == "->"

IdChars == {"a", "b", Arrow}

\* the strings of at most n characters over the alphabet cs
StringsOver(cs, n) == UNION { [1..k -> cs] : k \in 0..n }

Ids == StringsOver(IdChars, MaxIdLen)

\* a key that joins the two ids without a separator
getEdgeKeyNoSeparator(source, target) == source \o target

\* `${source}\u2192${target}`
getEdgeKey(source, target) == source \o <<Arrow>> \o target

KeyInit ==
    /\ \E s \in Ids, t \in Ids : keyArgs = << [source |-> s, target |-> t] >>
    /\ keyOut = << >>
    /\ exitArgs = << >>
    /\ exitOut = << >>
    /\ nodes = << >>
    /\ edges = << >>
    /\ cfg = [width |-> Num(800), height |-> Num(500), iterations |-> 0, tickInterval |-> 1]
    /\ SimIdle
    /\ LayoutIdle
    /\ QtIdle

ComputeKey ==
    /\ keyOut = << >>
    /\ keyOut' = << getEdgeKey(keyArgs[1].source, keyArgs[1].target) >>
    /\ UNCHANGED <<keyArgs, exitArgs, exitOut, inputVars, simVars, layoutVars, qtVars>>

KeyNext == ComputeKey

KeySpec == KeyInit /\ [][KeyNext]_vars

\* rounding allowance of the fixed-point evaluation, in units of 1/SCALE
GeoTolerance == 2

Near(a, b) == Abs(a - b) <= GeoTolerance

(***************************************************************************)
(* Claims about runSimulation.                                             *)
(***************************************************************************)
EndCalls == { k \in 1..Len(log) : log[k].kind = "end" }

TickCalls == { k \in 1..Len(log) : log[k].kind = "tick" }

BatchedTickCalls == { k \in TickCalls : ~log[k].final }

\* C1: once cancel() has been called between two frame callbacks and before
\* onEnd, no onTick and no onEnd call is ever made again and no frame callback
\* stays pending, however many frames the host runs.
C1_CancelBetweenFramesStopsCallbacks ==
    betweenCancelAt # -1 => (Len(log) = betweenCancelAt /\ rafQueue = {})

C1_Witness ==
    /\ betweenCancelAt # -1
    /\ Len(nodes) >= 1
    /\ frame >= 1
    /\ frame < cfg.iterations
    /\ idleFrames >= 1

\* C2: once a cancel() made inside an onTick callback has returned, no further
\* onTick and no onEnd call is made.
C2_CancelInsideOnTickStopsCallbacks ==
    tickCancelAt # -1 => Len(log) = tickCancelAt

C4_FixedNodeStaysAtInitialPosition ==
    \A k \in 1..Len(log) :
        \A i \in 1..Len(nodes) :
            nodes[i].fixed =>
                log[k].vals[i] = [x  |-> InitialPos(nodes, cfg, random)[i].x,
                                  y  |-> InitialPos(nodes, cfg, random)[i].y,
                                  vx |-> 0,
                                  vy |-> 0]

\* a run that ended with a fixed node without hints tied by an edge to a free
\* node that has moved
C4_Witness ==
    /\ Len(nodes) = 2
    /\ nodes[1].fixed /\ nodes[1].x = Undefined
    /\ ~nodes[2].fixed
    /\ edges = << [source |-> "a", target |-> "b"] >>
    /\ cfg.iterations >= 2
    /\ EndCalls # {}
    /\ pos[2] # InitialPos(nodes, cfg, random)[2]

\* C5: a step of the simulation leaves what every delivered snapshot reads
\* unchanged, and a consumer's write into a snapshot entry leaves the
\* simulation's pos[] unchanged.
C5_SnapshotIsPointInTimeCopy ==
    [][ /\ framesRun' # framesRun =>
             \A k \in 1..Len(log) :
                 Deref(log[k].refs, pos') = Deref(log[k].refs, pos)
        /\ consumerWrites' # consumerWrites => pos' = pos ]_vars

\* C6: with no nodes, onEnd([]) has been called when runSimulation returns,
\* no frame callback is ever pending, no step runs and onTick is never called.
C6_EmptyNodesEndImmediately ==
    Len(nodes) = 0 =>
        /\ rafQueue = {}
        /\ framesRun = 0
        /\ Len(log) = 1
        /\ log[1].kind = "end"

\* C7: an onEnd call is the last call of the run; it is directly preceded by
\* the only onTick call of the same frame callback, and both deliver the
\* current positions.
C7_FinalTickThenEnd ==
    \A k \in EndCalls :
        /\ k = Len(log)
        /\ k >= 2
        /\ log[k - 1].kind = "tick"
        /\ log[k - 1].frameNo = log[k].frameNo
        /\ { j \in TickCalls : log[j].frameNo = log[k].frameNo } = { k - 1 }
        /\ log[k - 1].vals = log[k].vals
        /\ log[k].vals = pos

C7_Witness ==
    /\ EndCalls # {}
    /\ BatchedTickCalls # {}
    /\ Len(nodes) >= 1

\* C8: without cancel(), onTick is called after step s of 1..iterations exactly
\* when s is a multiple of tickInterval and after no other step, so a finished
\* run made floor(iterations / tickInterval) batched ticks and one final tick.
C8_TicksAtMultiplesOfTickInterval ==
    cancelCalls = 0 =>
        /\ \A k \in BatchedTickCalls :
              /\ log[k].step \in 1..cfg.iterations
              /\ log[k].step % cfg.tickInterval = 0
        /\ \A s \in 1..frame :
              s % cfg.tickInterval = 0 =>
                  \E k \in BatchedTickCalls : log[k].step = s
        /\ EndCalls # {} =>
              /\ Cardinality(BatchedTickCalls) = cfg.iterations \div cfg.tickInterval
              /\ Cardinality(TickCalls) = Cardinality(BatchedTickCalls) + 1

\* the same for iterations >= 1
C8_HoldsForPositiveIterations ==
    cfg.iterations >= 1 => C8_TicksAtMultiplesOfTickInterval

\* the edges whose source and target are both ids of nodes
KnownEdges ==
    SelectSeq(edges, LAMBDA e : e.source \in { nodes[i].id : i \in 1..Len(nodes) }
                                /\ e.target \in { nodes[i].id : i \in 1..Len(nodes) })

\* an edge that names an id that is no node
HasDanglingEdge == Len(KnownEdges) < Len(edges)

\* the positions and velocities after n steps of the run on the same nodes,
\* canvas, configuration and initial positions with the edges es
RECURSIVE PosAfter(_, _)
PosAfter(es, n) ==
    IF n = 0 THEN InitialPos(nodes, cfg, random)
    ELSE StepForces(PosAfter(es, n - 1), nodes, es, cfg, Alpha(n - 1, cfg.iterations))

\* C18: an edge whose source or target id is not in nodes contributes nothing
\* to the attraction pass and is never an error: every callback of the run
\* delivers the positions and velocities that the run from the same initial
\* positions with those edges removed has after the same number of steps
\* (the steps at which callbacks are made do not depend on the edges).
C18_DanglingEdgesContributeNothing ==
    HasDanglingEdge =>
        /\ pos = PosAfter(KnownEdges, frame)
        /\ \A n \in 1..Len(log) : log[n].vals = PosAfter(KnownEdges, log[n].step)

\* a run ended on two nodes joined by an edge, with a second edge that names
\* an id that is no node
C18_Witness ==
    /\ Ended
    /\ Len(nodes) = 2
    /\ HasDanglingEdge
    /\ Len(KnownEdges) = 1
    /\ cfg.iterations >= 2

\* C19: a cancel() made by the caller a second time, or after the simulation
\* has ended with onEnd, invokes no callback, schedules nothing and changes
\* no position, step counter or handle of the run; at most it removes a frame
\* request that is still pending (there is no error to raise:
\* cancelAnimationFrame accepts any handle).
C19_RepeatedOrLateCancelIsNoOp ==
    [][(cancelCalls' = cancelCalls + 1 /\ framesRun' = framesRun
            /\ (cancelCalls >= 1 \/ Ended))
        => /\ log' = log
           /\ rafQueue' \subseteq rafQueue
           /\ nextRafId' = nextRafId
           /\ <<pos, frame, animId>>' = <<pos, frame, animId>>]_vars

\* cancel() was called twice between frames before the run could end
C19_Witness ==
    /\ cancelCalls = 2
    /\ tickCancelAt = -1
    /\ ~Ended

\* cancel() was called only after onEnd
C19_CancelAfterEndReached ==
    /\ Ended
    /\ cancelCalls >= 1
    /\ tickCancelAt = -1
    /\ betweenCancelAt = -1

\* C17: the repulsion pass of every step is Barnes-Hut exactly when
\* nodes.length > barnesHutThreshold (brute force at exactly the threshold), the
\* same for every step of the run, and a run on the Barnes-Hut path that was
\* not cancelled and has no frame pending has ended with onEnd delivering one
\* entry per node.
C17_BarnesHutAboveThresholdAndEndsWithOnEnd ==
    /\ \A k \in 1..Len(passes) :
          passes[k] = "barnesHut" <=> Len(nodes) > cfg.barnesHutThreshold
    /\ (Len(nodes) > cfg.barnesHutThreshold /\ rafQueue = {} /\ cancelCalls = 0)
          => /\ Ended
             /\ Len(log[Len(log)].vals) = Len(nodes)

\* the part of C17 that holds: the choice follows the threshold at every step,
\* and a Barnes-Hut run whose frame callbacks all returned ends with onEnd
\* delivering one entry per node
C17_ChoiceFollowsThresholdAndEndsUnlessThrown ==
    /\ \A k \in 1..Len(passes) :
          passes[k] = "barnesHut" <=> Len(nodes) > cfg.barnesHutThreshold
    /\ (Len(nodes) > cfg.barnesHutThreshold /\ rafQueue = {} /\ cancelCalls = 0
           /\ ~thrown)
          => /\ Ended
             /\ Len(log[Len(log)].vals) = Len(nodes)

\* a run of exactly barnesHutThreshold nodes stepped, and so did a longer one
\* that ended
C17_AtThresholdReached ==
    /\ Len(nodes) = cfg.barnesHutThreshold
    /\ Len(passes) >= 2

C17_BarnesHutRunEnded ==
    /\ Len(nodes) > cfg.barnesHutThreshold
    /\ Len(passes) >= 2
    /\ Ended

\* what a run alone has computed and delivered after n of its frame callbacks
RECURSIVE SoloRun(_, _, _, _, _)
SoloRun(ns, es, c, p0, n) ==
    IF n = 0 THEN [pos |-> p0, frame |-> 0, log |-> << >>]
    ELSE LET r     == SoloRun(ns, es, c, p0, n - 1)
             alpha == Alpha(r.frame, c.iterations)
         IN  IF LeqZero(alpha)
             THEN [r EXCEPT !.log = @ \o FinalCalls(r.pos, n, r.frame)]
             ELSE LET p1 == StepForces(r.pos, ns, es, c, alpha)
                  IN  [pos |-> p1, frame |-> r.frame + 1,
                       log |-> r.log \o BatchedCalls(p1, n, r.frame + 1, c.tickInterval)]

PeerEnded == \E k \in 1..Len(peer.log) : peer.log[k].kind = "end"

\* C20: two runs started by separate runSimulation calls share no mutable
\* state: under every interleaving of their frame callbacks each run has
\* computed and delivered exactly what it would have alone after as many of its
\* own callbacks, and a run that has not ended and whose own cancel() was never
\* called still has a frame pending, whatever was done to the other run.
C20_TwoRunsShareNoMutableState ==
    LET solo == SoloRun(nodes, edges, cfg, InitialPos(nodes, cfg, random), framesRun)
        duo  == SoloRun(peer.nodes, peer.edges, peer.cfg,
                        InitialPos(peer.nodes, peer.cfg, NoRandom), peer.framesRun)
    IN  /\ log = solo.log
        /\ pos = solo.pos
        /\ (cancelCalls = 0 /\ ~Ended) => rafQueue # {}
        /\ peer.started =>
              /\ peer.log = duo.log
              /\ peer.pos = duo.pos
              /\ (peer.cancelCalls = 0 /\ ~PeerEnded) => peer.rafQueue # {}

\* the first run was cancelled between two of its frames and the second one,
\* started after the first had stepped, went on to its end
C20_Witness ==
    /\ betweenCancelAt # -1
    /\ ~Ended
    /\ framesRun >= 1
    /\ peer.started
    /\ peer.cancelCalls = 0
    /\ peer.framesRun >= 2
    /\ PeerEnded
    /\ Len(peer.nodes) = 2

\* the second run was cancelled and the first one went on to its end
C20_PeerCancelledReached ==
    /\ peer.started
    /\ peer.cancelCalls = 1
    /\ ~PeerEnded
    /\ peer.rafQueue = {}
    /\ cancelCalls = 0
    /\ Ended
    /\ framesRun >= 3

\* every coordinate and velocity of the positions p is a number other than NaN
AllFinite(p) ==
    \A i \in 1..Len(p) : p[i].x # NaN /\ p[i].y # NaN /\ p[i].vx # NaN /\ p[i].vy # NaN

\* C30: with iterations = 0 no integration step is executed: the run ends on
\* its first frame callback, with onTick then onEnd delivering the unchanged
\* initial positions, all of them finite.
C30_ZeroIterationsEndsOnFirstFrame ==
    (cfg.iterations = 0 /\ framesRun >= 1) =>
        /\ frame = 0
        /\ Len(log) = 2
        /\ log[1].kind = "tick"
        /\ log[2].kind = "end"
        /\ \A k \in 1..Len(log) :
              /\ log[k].frameNo = 1
              /\ log[k].vals = InitialPos(nodes, cfg, random)
              /\ AllFinite(log[k].vals)

\* what the code does have for iterations = 0: the run ends on its second
\* frame callback, after one step with alpha = NaN
C30_ZeroIterationsEndsOnSecondFrame ==
    (cfg.iterations = 0 /\ Ended) =>
        /\ frame = 1
        /\ framesRun = 2
        /\ log[Len(log)].frameNo = 2
        /\ log[Len(log)].vals = pos
        /\ \A i \in 1..Len(nodes) : nodes[i].fixed \/ pos[i].x = NaN

\* a run with iterations = 0 on two free nodes ended
C30_ZeroIterationsRunEnded ==
    /\ cfg.iterations = 0
    /\ Ended
    /\ Len(nodes) = 2
    /\ \A i \in 1..2 : ~nodes[i].fixed

(***************************************************************************)
(* Claims about the static layouts.                                        *)
(***************************************************************************)
\* C9: computeTreeLayout and computeRadialLayout each return a mapping whose
\* key set is exactly the set of input node ids, also for the empty list and
\* for edges naming ids that are not nodes.
C9_LayoutKeysAreExactlyTheNodeIds ==
    /\ treeOut # << >> => DOMAIN treeOut[1] = IdsOf(nodes)
    /\ radialOut # << >> => DOMAIN radialOut[1] = IdsOf(nodes)

\* both layouts were computed for a graph with an edge to an id that is no node
C9_Witness ==
    /\ treeOut # << >>
    /\ radialOut # << >>
    /\ Len(nodes) >= 2
    /\ \E n \in 1..Len(edges) :
          edges[n].source \in IdsOf(nodes) /\ edges[n].target \notin IdsOf(nodes)

\* the first node in input order that no edge targets, or nodes[0] if there is none
ExpectedRoot ==
    LET free == { i \in 1..Len(nodes) :
                    \A n \in 1..Len(edges) : edges[n].target # nodes[i].id }
    IN  IF free = {} THEN nodes[1].id
        ELSE nodes[CHOOSE i \in free : \A j \in free : i <= j].id

\* C10: the root is the first node in input order with in-degree 0, or
\* nodes[0] when there is none; it is the only node at depth 0, and
\* computeRadialLayout places it at (width/2, height/2).
C10_RootIsFirstSourceAndCentred ==
    Len(nodes) > 0 =>
        /\ FindRoot(nodes, edges) = ExpectedRoot
        /\ { id \in IdsOf(nodes) : FinalDepth(nodes, edges)[id] = 0 } = { ExpectedRoot }
        /\ radialOut # << >> =>
              radialOut[1][ExpectedRoot] =
                  [x |-> FDiv(cfg.width, Num(2)), y |-> FDiv(cfg.height, Num(2))]

\* the radial layout of a graph whose root is not its first node
C10_Witness ==
    /\ radialOut # << >>
    /\ Len(nodes) >= 2
    /\ ExpectedRoot # nodes[1].id

\* the radial layout of a graph in which every node has an incoming edge
C10_FallbackReached ==
    /\ radialOut # << >>
    /\ Len(nodes) >= 2
    /\ \A i \in 1..Len(nodes) : Incoming(edges, nodes[i].id) > 0

\* x is strictly increasing in depth in the tree layout that was computed
TreeXIncreasesWithDepth ==
    \A u, v \in IdsOf(nodes) :
        FinalDepth(nodes, edges)[u] < FinalDepth(nodes, edges)[v]
            => treeOut[1][u].x < treeOut[1][v].x

\* C11 as stated: in computeTreeLayout, for every graph and every positive
\* canvas width, depth(u) < depth(v) implies x(u) < x(v).
C11_TreeXIncreasesForEveryPositiveWidth ==
    (treeOut # << >> /\ Len(nodes) > 0 /\ cfg.width > 0) => TreeXIncreasesWithDepth

\* C11 amended: in computeTreeLayout, for every graph and every canvas width
\* greater than 2 * pad = 120, depth(u) < depth(v) implies x(u) < x(v), so
\* the root has the minimum x of all nodes.
C11_TreeXIncreasesForWidthAbovePadding ==
    (treeOut # << >> /\ Len(nodes) > 0 /\ cfg.width > Num(Pad * 2)) =>
        /\ TreeXIncreasesWithDepth
        /\ \A v \in IdsOf(nodes) :
              treeOut[1][FindRoot(nodes, edges)].x <= treeOut[1][v].x

\* a tree layout with three layers on a canvas wider than 2 * pad
C11_Witness ==
    /\ treeOut # << >>
    /\ cfg.width > Num(Pad * 2)
    /\ Len(nodes) = 3
    /\ Cardinality({ FinalDepth(nodes, edges)[id] : id \in IdsOf(nodes) }) = 3

CanvasCentre == [x |-> FDiv(cfg.width, Num(2)), y |-> FDiv(cfg.height, Num(2))]

\* C12: for a single-node input, whatever the edge list contains (no edges,
\* a self-edge, or an edge to an id that is not in nodes), computeTreeLayout
\* and computeRadialLayout both place the node at (width/2, height/2).
C12_SingleNodeIsCentred ==
    Len(nodes) = 1 =>
        /\ treeOut # << >> => treeOut[1][nodes[1].id] = CanvasCentre
        /\ radialOut # << >> => radialOut[1][nodes[1].id] = CanvasCentre

\* nodes = [a, b] with the edges a -> b and b -> a
IsTwoCycle ==
    /\ Len(nodes) = 2
    /\ edges = << [source |-> nodes[1].id, target |-> nodes[2].id],
                  [source |-> nodes[2].id, target |-> nodes[1].id] >>

RingRadius(d) ==
    FMul(FDiv(Num(d), Num(buildLayers(nodes, edges).maxDepth)),
         FSub(FDiv(FMin(cfg.width, cfg.height), Num(2)), Num(RingMargin)))

\* the offset of a node's radial position from the canvas centre
FromCentre(id) ==
    [x |-> radialOut[1][id].x - CanvasCentre.x, y |-> radialOut[1][id].y - CanvasCentre.y]

\* the rings of the radial layout that was computed, as layers of buildLayers
Rings == buildLayers(nodes, edges).layers

RingDepths == DOMAIN Rings \ {0}

\* every node of a ring is at distance |RingRadius| from the centre, each next
\* node of a ring of n is 1/n of a full turn further (the same sense of
\* rotation in every ring), and distinct nodes take distinct places
RingsEvenlySpaced ==
    \A d \in RingDepths :
        LET ring == Rings[d]
            n    == Len(ring)
            r    == RingRadius(d)
            slack == 2 * GeoTolerance * (Abs(r) + 1)
        IN  /\ \A i \in 1..n :
                  LET e == FromCentre(ring[i])
                  IN  Near(ISqrtBetween(e.x * e.x + e.y * e.y, 0, 46340), Abs(r))
            /\ \A i \in 1..n :
                  LET e == FromCentre(ring[i])
                      f == FromCentre(ring[(i % n) + 1])
                      turn == TurnTable[n][2 - (IF n = 1 THEN 1 ELSE 0)]
                  IN  /\ Abs(e.x * f.x + e.y * f.y
                               - Sign(turn[1]) * MulDiv(r * r, turn[1], TRIG)) <= slack
                      /\ Abs(e.x * f.y - e.y * f.x
                               - Sign(turn[2]) * MulDiv(r * r, turn[2], TRIG)) <= slack
            /\ r # 0 => \A i, j \in 1..n :
                           i # j => radialOut[1][ring[i]] # radialOut[1][ring[j]]

\* C16 as stated: in computeRadialLayout every node at depth d >= 1 lies at
\* distance |(d/maxDepth) * (min(width,height)/2 - 80)| from (width/2,
\* height/2), and the i-th of the n nodes of a ring (in layer order) takes
\* angular slot i/n of the full circle starting straight up (the first node
\* is vertically above the centre), so distinct nodes of one ring get
\* distinct slots.
C16_RingSlotsStartStraightUp ==
    (radialOut # << >> /\ Len(nodes) > 0) =>
        /\ RingsEvenlySpaced
        /\ \A d \in RingDepths :
              FromCentre(Rings[d][1]) = [x |-> 0, y |-> 0 - Abs(RingRadius(d))]

\* C16 amended: the same distances and the same even spacing, with the first
\* node of a ring at angle -PI/2 of the signed radius R = (d/maxDepth) *
\* (min(width,height)/2 - 80), that is at (width/2, height/2 - R): straight
\* up when min(width,height) > 160 and straight down when it is below 160.
C16_RingSlotsStartAtSignedRadius ==
    (radialOut # << >> /\ Len(nodes) > 0) =>
        /\ RingsEvenlySpaced
        /\ \A d \in RingDepths :
              FromCentre(Rings[d][1]) = [x |-> 0, y |-> 0 - RingRadius(d)]

\* a ring of two nodes at the same depth, on a canvas that gives it a radius
C16_Witness ==
    /\ radialOut # << >>
    /\ Len(nodes) > 0
    /\ \E d \in RingDepths : Len(Rings[d]) >= 2 /\ RingRadius(d) > 0

\* a ring on a canvas so small that its radius is negative
C16_NegativeRadiusReached ==
    /\ radialOut # << >>
    /\ Len(nodes) > 0
    /\ \E d \in RingDepths : RingRadius(d) < 0

\* the nodes first met k edges away from the root, along edges between nodes
RECURSIVE NodesWithin(_)
NodesWithin(k) ==
    IF k = 0 THEN {FindRoot(nodes, edges)}
    ELSE NodesWithin(k - 1) \cup
         { edges[n].target : n \in { m \in 1..Len(edges) :
                                       /\ edges[m].source \in NodesWithin(k - 1)
                                       /\ edges[m].target \in IdsOf(nodes) } }

\* the nodes the root reaches along directed edges between input nodes
ReachableNodes == NodesWithin(Len(nodes))

\* the length of a shortest directed path from the root to a reachable node
ShortestPath(id) == CHOOSE k \in 0..Len(nodes) :
                        id \in NodesWithin(k) /\ (k > 0 => id \notin NodesWithin(k - 1))

\* C24: for every node reachable from the root along directed edges between
\* input nodes, the depth buildLayers assigns is the length of a shortest
\* directed path from the root: 0 for the root, and for every other reachable
\* node 1 + the least depth of its in-neighbours; also with cycles, self-edges
\* and duplicate edges.
C24_DepthIsShortestPathLength ==
    bfsPc = "returned" =>
        /\ bfsDepth[FindRoot(nodes, edges)] = 0
        /\ \A id \in ReachableNodes :
              /\ bfsDepth[id] = ShortestPath(id)
              /\ id # FindRoot(nodes, edges) =>
                    \E n \in 1..Len(edges) :
                        /\ edges[n].target = id
                        /\ edges[n].source \in ReachableNodes
                        /\ bfsDepth[id] = bfsDepth[edges[n].source] + 1
                        /\ \A m \in 1..Len(edges) :
                              (edges[m].target = id /\ edges[m].source \in ReachableNodes)
                                  => bfsDepth[edges[m].source] >= bfsDepth[edges[n].source]

\* buildLayers returned for a graph with a node two edges away from the root
C24_Witness ==
    /\ bfsPc = "returned"
    /\ \E id \in ReachableNodes : ShortestPath(id) = 2 /\ bfsDepth[id] = 2

\* buildLayers returned for a graph with a cycle of two nodes
C24_CycleReached ==
    /\ bfsPc = "returned"
    /\ \E n, m \in 1..Len(edges) :
          /\ edges[n].source # edges[n].target
          /\ edges[n].source = edges[m].target
          /\ edges[n].target = edges[m].source
          /\ edges[n].target \in ReachableNodes

\* buildLayers returned for a graph with a self-edge, and for one with a
\* duplicate edge
C24_SelfEdgeReached ==
    /\ bfsPc = "returned"
    /\ \E n \in 1..Len(edges) : edges[n].source = edges[n].target
    /\ Cardinality(ReachableNodes) >= 2

C24_DuplicateEdgeReached ==
    /\ bfsPc = "returned"
    /\ Len(edges) = 2
    /\ edges[1] = edges[2]
    /\ Cardinality(ReachableNodes) >= 2

\* the greatest depth among the input nodes the BFS reached
MaxReachedNodeDepth ==
    LET reached == IdsOf(nodes) \cap DOMAIN BfsDepth(nodes, edges)
    IN  CHOOSE d \in { BfsDepth(nodes, edges)[id] : id \in reached } :
            \A id \in reached : BfsDepth(nodes, edges)[id] <= d

UnreachedNodes == IdsOf(nodes) \ DOMAIN BfsDepth(nodes, edges)

\* C25: every input node the BFS does not reach is assigned depth
\* 1 + (the greatest depth of the input nodes the BFS reached), so the
\* unreachable nodes share one trailing layer directly after the last reached
\* layer and maxDepth is that depth; also when edges name ids that are not in
\* nodes.
C25_OrphansShareOneTrailingLayer ==
    (bfsPc = "returned" /\ UnreachedNodes # {}) =>
        /\ \A id \in UnreachedNodes : bfsDepth[id] = MaxReachedNodeDepth + 1
        /\ bfsOut[1].maxDepth = MaxReachedNodeDepth + 1
        /\ DOMAIN bfsOut[1].layers = 0..(MaxReachedNodeDepth + 1)

\* the part of C25 that holds: when every edge target is a node, the
\* unreachable nodes share the layer directly after the last reached one
C25_HoldsWhenEveryTargetIsANode ==
    (bfsPc = "returned" /\ UnreachedNodes # {}
       /\ \A n \in 1..Len(edges) : edges[n].target \in IdsOf(nodes)) =>
        /\ \A id \in UnreachedNodes : bfsDepth[id] = MaxReachedNodeDepth + 1
        /\ bfsOut[1].maxDepth = MaxReachedNodeDepth + 1
        /\ DOMAIN bfsOut[1].layers = 0..(MaxReachedNodeDepth + 1)

\* a node was left unreached behind a reached layer of depth 1
C25_OrphanBehindDepthOneReached ==
    /\ bfsPc = "returned"
    /\ Cardinality(UnreachedNodes) >= 1
    /\ MaxReachedNodeDepth = 1
    /\ \A n \in 1..Len(edges) : edges[n].target \in IdsOf(nodes)

(***************************************************************************)
(* Claims about the geometry utilities.                                    *)
(***************************************************************************)
IsFinite(v) == v \notin {NaN, Infinity, NegInfinity}

\* C14: when source equals target, getNodeExitPoint returns a finite point:
\* neither coordinate is NaN or infinite.
C14_ExitPointFiniteWhenSourceEqualsTarget ==
    (exitOut # << >> /\ exitArgs[1].source = exitArgs[1].target) =>
        (IsFinite(exitOut[1].x) /\ IsFinite(exitOut[1].y))

\* the exit point computed for a 100 x 50 box at (0,0) toward target (tx, ty)
ExitFromOrigin(tx, ty) ==
    getNodeExitPoint([x |-> 0, y |-> 0], [x |-> Num(tx), y |-> Num(ty)],
                     [width |-> Num(100), height |-> Num(50)])

\* C15: for source != target and positive bounds, getNodeExitPoint returns a
\* point on the ray from source toward target that lies on the border of the
\* axis-aligned box of half-extents (width/2, height/2) centred at source:
\* |x-sx| <= width/2 and |y-sy| <= height/2 with equality on at least one
\* axis; for a 100x50 box at (0,0): toward (200,0) gives (50,0), toward
\* (0,200) gives (0,25), toward (100,100) gives (25,25).  Equalities are up
\* to the rounding allowance.
C15_ExitPointOnBoxBorderAlongRay ==
    (exitOut # << >> /\ exitArgs[1].source # exitArgs[1].target) =>
        LET a  == exitArgs[1]
            ex == exitOut[1].x - a.source.x
            ey == exitOut[1].y - a.source.y
            dx == a.target.x - a.source.x
            dy == a.target.y - a.source.y
            hw == a.bounds.width \div 2
            hh == a.bounds.height \div 2
        IN  /\ IsFinite(exitOut[1].x) /\ IsFinite(exitOut[1].y)
            \* on the ray: no distance from the line, and on the target's side
            /\ Abs(ex * dy - ey * dx) <= GeoTolerance * (ExitDist(dx, dy) + 1)
            /\ ex * dx + ey * dy > 0
            \* on the border of the box
            /\ Abs(ex) <= hw + GeoTolerance
            /\ Abs(ey) <= hh + GeoTolerance
            /\ Near(Abs(ex), hw) \/ Near(Abs(ey), hh)
            /\ Near(ExitFromOrigin(200, 0).x, Num(50)) /\ Near(ExitFromOrigin(200, 0).y, 0)
            /\ Near(ExitFromOrigin(0, 200).x, 0) /\ Near(ExitFromOrigin(0, 200).y, Num(25))
            /\ Near(ExitFromOrigin(100, 100).x, Num(25))
            /\ Near(ExitFromOrigin(100, 100).y, Num(25))

\* the exit point of a 100 x 50 box at (0,0) toward (100,100) was computed
C15_Witness ==
    /\ exitOut # << >>
    /\ exitArgs[1] = [source |-> [x |-> 0, y |-> 0],
                      target |-> [x |-> Num(100), y |-> Num(100)],
                      bounds |-> [width |-> Num(100), height |-> Num(50)]]
    /\ Near(exitOut[1].x, Num(25))

SepFree(id) == \A k \in 1..Len(id) : id[k] # Arrow

SepFreeIds == { id \in Ids : SepFree(id) }

\* no other pair of separator-free ids has the key delivered for this pair
KeyIsUniqueAmongSepFree ==
    \A s \in SepFreeIds, t \in SepFreeIds :
        getEdgeKey(s, t) = keyOut[1] => (s = keyArgs[1].source /\ t = keyArgs[1].target)

\* C21: getEdgeKey(a,b) differs from getEdgeKey(b,a) whenever a != b, for all
\* ids, and getEdgeKey is injective on the pairs whose ids do not contain the
\* separator character.
C21_ReversedKeyDiffersForAllIds ==
    keyOut # << >> =>
        /\ keyArgs[1].source # keyArgs[1].target
              => keyOut[1] # getEdgeKey(keyArgs[1].target, keyArgs[1].source)
        /\ (SepFree(keyArgs[1].source) /\ SepFree(keyArgs[1].target))
              => KeyIsUniqueAmongSepFree

\* C21 (amended): for ids that do not contain the separator character,
\* getEdgeKey(a,b) differs from getEdgeKey(b,a) whenever a != b, and getEdgeKey
\* is injective on (source,target) pairs.
C21_KeyInjectiveOnSepFreeIds ==
    (keyOut # << >> /\ SepFree(keyArgs[1].source) /\ SepFree(keyArgs[1].target)) =>
        /\ keyArgs[1].source # keyArgs[1].target
              => keyOut[1] # getEdgeKey(keyArgs[1].target, keyArgs[1].source)
        /\ KeyIsUniqueAmongSepFree

\* the key of ("a", "ab") was computed: without a separator ("aa", "b") would share it
C21_Witness ==
    /\ keyOut = << <<"a", Arrow, "a", "b">> >>
    /\ keyArgs[1].source = <<"a">>
    /\ SepFree(keyArgs[1].target)

(***************************************************************************)
(* Claims about the repulsion passes.                                      *)
(***************************************************************************)
\* the nodes of the tree below and including node
RECURSIVE SubNodes(_)
SubNodes(node) ==
    IF node.isNull THEN {}
    ELSE IF node.children = << >> THEN {node}
    ELSE {node} \cup UNION { SubNodes(node.children[q]) : q \in 1..4 }

RECURSIVE SumOf(_, _)
SumOf(f, S) == IF S = {} THEN 0 ELSE LET i == CHOOSE j \in S : TRUE
                                     IN  f[i] + SumOf(f, S \ {i})

TreeBuilt == qtTree # << >> /\ ~qtTree[1].overflow

QtBodies == qtArgs[1].pos

\* c is the mean of the values f[i], i in B, up to the rounding of the divisions
IsMeanOf(c, f, B) ==
    Abs(c * Cardinality(B) - SumOf(f, B)) <= GeoTolerance * Cardinality(B)

\* C22: after the quadtree has been built from n bodies, every tree node's
\* mass equals the number of bodies stored in its subtree (the root's mass is
\* n) and its (cx, cy) is the arithmetic mean of those bodies' positions.
C22_MassAndCentreOfEverySubtree ==
    TreeBuilt =>
        /\ qtTree[1].mass = Len(QtBodies)
        /\ \A nd \in SubNodes(qtTree[1]) :
              /\ nd.mass = Cardinality(BodiesIn(nd))
              /\ IsMeanOf(nd.cx, [i \in 1..Len(QtBodies) |-> QtBodies[i].x], BodiesIn(nd))
              /\ IsMeanOf(nd.cy, [i \in 1..Len(QtBodies) |-> QtBodies[i].y], BodiesIn(nd))

\* C23: the Barnes-Hut pass (quadtree build and traversal) comes to its end
\* for every set of body positions, also when two or more bodies have exactly
\* the same coordinates: the build does not run out of call stack and the
\* velocities are delivered.
C23_BarnesHutPassTerminates ==
    qtTree # << >> => (~qtTree[1].overflow /\ bhOut # << >>)

\* the part of C23 that holds: the pass comes to its end when no two bodies
\* have the same coordinates
C23_TerminatesForDistinctPositions ==
    (qtTree # << >> /\ \A i, j \in 1..Len(QtBodies) :
                          i # j => <<QtBodies[i].x, QtBodies[i].y>>
                                     # <<QtBodies[j].x, QtBodies[j].y>>)
        => (~qtTree[1].overflow /\ bhOut # << >>)

\* C26: in the Barnes-Hut pass the velocity change of body i never includes a
\* contribution from body i itself: no cell whose subtree holds i is taken as
\* one pseudo-body for i, and a single body is left without any change.
C26_NoBodyRepelsItself ==
    bhOut # << >> =>
        /\ \A i \in 1..Len(QtBodies) : \A c \in bhUsed[i] : i \notin c.bodies
        /\ Len(QtBodies) = 1 => bhOut[1] = QtBodies

\* the part of C26 that holds: with theta = 0 no cell is taken as a
\* pseudo-body, and body i is skipped at its own leaf
C26_NoAggregateWithThetaZero ==
    (bhOut # << >> /\ qtArgs[1].theta = 0) =>
        /\ \A i \in 1..Len(QtBodies) : bhUsed[i] = {}
        /\ Len(QtBodies) = 1 => bhOut[1] = QtBodies

\* some cell that does not hold body i was taken as a pseudo-body for i
C26_ForeignAggregateReached ==
    /\ bhOut # << >>
    /\ \E i \in 1..Len(QtBodies) : \E c \in bhUsed[i] : i \notin c.bodies

\* the change of velocity the brute-force pass gave body i
BfDelta(i) == [vx |-> bfOut[1][i].vx - QtBodies[i].vx, vy |-> bfOut[1][i].vy - QtBodies[i].vy]

SamePlace(i, j) == QtBodies[i].x = QtBodies[j].x /\ QtBodies[i].y = QtBodies[j].y

\* C27: for two nodes at different positions the brute-force repulsion changes
\* their velocities by equal and opposite amounts along the line joining them,
\* away from each other: no component on an axis on which they do not differ;
\* the 0.01 epsilon affects only pairs at zero distance.
C27_PairRepelsAlongJoiningLine ==
    (bfOut # << >> /\ Len(QtBodies) = 2 /\ ~SamePlace(1, 2)) =>
        /\ BfDelta(1).vx = 0 - BfDelta(2).vx
        /\ BfDelta(1).vy = 0 - BfDelta(2).vy
        /\ BfDelta(1).vx * (QtBodies[2].x - QtBodies[1].x) <= 0
        /\ BfDelta(1).vy * (QtBodies[2].y - QtBodies[1].y) <= 0
        /\ QtBodies[1].x = QtBodies[2].x => BfDelta(1).vx = 0
        /\ QtBodies[1].y = QtBodies[2].y => BfDelta(1).vy = 0

\* the part of C27 that holds: equal and opposite changes, each body pushed
\* away from the other on every axis on which they differ
C27_PairRepelsEqualAndOpposite ==
    (bfOut # << >> /\ Len(QtBodies) = 2 /\ ~SamePlace(1, 2)) =>
        /\ BfDelta(1).vx = 0 - BfDelta(2).vx
        /\ BfDelta(1).vy = 0 - BfDelta(2).vy
        /\ BfDelta(1).vx * (QtBodies[2].x - QtBodies[1].x) <= 0
        /\ BfDelta(1).vy * (QtBodies[2].y - QtBodies[1].y) <= 0

\* two bodies that differ on both axes were pushed apart on both
C27_ObliquePairReached ==
    /\ bfOut # << >>
    /\ Len(QtBodies) = 2
    /\ QtBodies[1].x < QtBodies[2].x
    /\ QtBodies[1].y < QtBodies[2].y
    /\ BfDelta(1).vx < 0
    /\ BfDelta(1).vy < 0

PairwiseDistinct == \A i, j \in 1..Len(QtBodies) : i # j => ~SamePlace(i, j)

\* no two bodies share an x or a y coordinate
NoSharedCoordinate ==
    \A i, j \in 1..Len(QtBodies) :
        i # j => (QtBodies[i].x # QtBodies[j].x /\ QtBodies[i].y # QtBodies[j].y)

\* C28: for the same pairwise-distinct positions and the same alpha, with
\* theta = 0 the Barnes-Hut pass gives every body the same velocity change as
\* the brute-force pass.
C28_ThetaZeroEqualsBruteForce ==
    (bhOut # << >> /\ bfOut # << >> /\ qtArgs[1].theta = 0 /\ PairwiseDistinct)
        => bhOut[1] = bfOut[1]

\* the part of C28 that holds: the two passes agree with theta = 0 when no two
\* bodies share a coordinate
C28_EqualWhenNoCoordinateIsShared ==
    (bhOut # << >> /\ bfOut # << >> /\ qtArgs[1].theta = 0 /\ NoSharedCoordinate)
        => bhOut[1] = bfOut[1]

\* both passes ran with theta = 0 on three bodies that share no coordinate and
\* changed every velocity
C28_ThreeBodiesCompared ==
    /\ bhOut # << >>
    /\ bfOut # << >>
    /\ qtArgs[1].theta = 0
    /\ Len(QtBodies) = 3
    /\ NoSharedCoordinate
    /\ \A i \in 1..3 : bhOut[1][i].vx # 0 /\ bhOut[1][i].vy # 0

\* the leaves of the tree that hold body i
LeavesOf(i) == { nd \in SubNodes(qtTree[1]) : nd.body = i }

InBox(nd, b) == nd.x0 <= b.x /\ b.x <= nd.x1 /\ nd.y0 <= b.y /\ b.y <= nd.y1

\* C29: after the quadtree has been built from n bodies at pairwise-distinct
\* positions, every body index is held by exactly one leaf, whose bounding box
\* contains that body's position; internal nodes hold no body index; and a
\* child quadrant exists only if at least one body lies in it.
C29_EveryBodyInExactlyOneLeaf ==
    (TreeBuilt /\ PairwiseDistinct) =>
        /\ \A i \in 1..Len(QtBodies) :
              /\ Cardinality(LeavesOf(i)) = 1
              /\ \A nd \in LeavesOf(i) : nd.children = << >> /\ InBox(nd, QtBodies[i])
        /\ \A nd \in SubNodes(qtTree[1]) :
              /\ nd.children # << >> => nd.body = -1
              /\ nd.children = << >> => nd.body \in 1..Len(QtBodies)
              /\ BodiesIn(nd) # {}
              /\ \A i \in BodiesIn(nd) : InBox(nd, QtBodies[i])

\* a tree of three bodies was built in which a leaf lies two levels below the
\* root and some quadrant of the root is empty
C29_Witness ==
    /\ TreeBuilt
    /\ PairwiseDistinct
    /\ Len(QtBodies) = 3
    /\ \E q \in 1..4 : qtTree[1].children[q].isNull
    /\ \E q \in 1..4 : /\ ~qtTree[1].children[q].isNull
                        /\ qtTree[1].children[q].children # << >>

=============================================================================
